---- MODULE Spec2Model ----
(***************************************************************************)
(* State-machine model of the DynaQR approval program                      *)
(* (algorand-backend/contracts/dynaqr_contract.py).                        *)
(*                                                                         *)
(* One step of the model is one application call: the approval program is  *)
(* evaluated on the call and the store as the ledger holds it; if it       *)
(* returns 1 all its writes are kept, and if it returns 0 or panics none   *)
(* is.  Values in the store are tagged, <<"u", n>> for a uint and          *)
(* <<"b", s>> for a byte string, as the AVM keeps them.                    *)
(*                                                                         *)
(* Byte strings that the program uses as text (selectors, event ids, keys, *)
(* names, urls, addresses) are written as TLA+ strings.  Byte strings that *)
(* the program decodes with Btoi are written as sequences of byte values.  *)
(* Machine integers are scaled down: a byte holds one bit and a uint has   *)
(* UintBytes bytes, so the largest uint is MaxUint instead of 2^64 - 1.    *)
(* Arithmetic that leaves 0..MaxUint panics, as the AVM's does.            *)
(*                                                                         *)
(* A rejected call leaves every variable as it was.                        *)
(*                                                                         *)
(* Local partitions are taken as allocated for every identity throughout:  *)
(* the ledger's allocation on opt-in and removal on close-out / clear      *)
(* state are not part of the approval program and are not modelled.        *)
(***************************************************************************)
EXTENDS Integers, Sequences, FiniteSets, TLC

\* ---- bounds -------------------------------------------------------------
UintBytes == 2   \* bytes in a uint (8 in the AVM)
MaxTime == 1     \* the latest block timestamp the model reaches

MaxUint == 2^UintBytes - 1

\* ---- the identities and event ids the calls are drawn from ---------------
Senders == {"A", "B"}
EventIds == {"ev1"}

\* ---- contract method names -----------------------------------------------
CREATE_EVENT == "create_event"
UPDATE_URL == "update_url"
REGISTER_EVENT == "register_event"
CONFIRM_ATTENDANCE == "confirm_attendance"
MINT_NFT == "mint_nft"
DEACTIVATE_EVENT == "deactivate_event"
INCREMENT_SCAN == "increment_scan"
UPDATE_TICKET_PRICE == "update_ticket_price"
REFUND_REGISTRATION == "refund_registration"

\* ---- global aggregate keys -----------------------------------------------
EVENT_COUNT_KEY == "event_count"
VERSION_KEY == "contract_version"
TOTAL_REGISTRATIONS_KEY == "total_registrations"
TOTAL_REVENUE_KEY == "total_revenue"

\* ---- event-specific suffixes ---------------------------------------------
EVENT_NAME_KEY == "event_name"
CURRENT_URL_KEY == "current_url"
ACCESS_TYPE_KEY == "access_type"
EXPIRY_DATE_KEY == "expiry_date"
CREATED_AT_KEY == "created_at"
OWNER_KEY == "owner"
SCAN_COUNT_KEY == "scan_count"
ACTIVE_KEY == "active"
TICKET_PRICE_KEY == "ticket_price"
MAX_CAPACITY_KEY == "max_capacity"
REGISTERED_COUNT_KEY == "registered_count"
NFT_ASSET_ID_KEY == "nft_asset_id"

\* ---- local state suffixes ------------------------------------------------
REG_STATUS_KEY == "registration_status"
REG_DATE_KEY == "registration_date"
REG_TIER_KEY == "ticket_tier"
REG_AMOUNT_KEY == "payment_amount"
REG_NFT_KEY == "nft_minted"

\* ---- on-completion kinds -------------------------------------------------
NoOp == "NoOp"
OptIn == "OptIn"
CloseOut == "CloseOut"
UpdateApplication == "UpdateApplication"
DeleteApplication == "DeleteApplication"

VARIABLES
    application_id,   \* 0 until the creating call has been approved
    global,           \* the global partition: key -> tagged value
    local,            \* the local partitions: identity -> (key -> tagged value)
    latest_timestamp, \* Global.latest_timestamp() of the next call
    history           \* how many calls of each kind were approved (history variable)

vars == <<application_id, global, local, latest_timestamp, history>>

\* ---- values, AVM primitives ----------------------------------------------
Uint(n) == <<"u", n>>
Bytes(s) == <<"b", s>>
IsUint(v) == v[1] = "u"
IsBytes(v) == v[1] = "b"

EmptyStore == [k \in {} |-> Uint(0)]

\* app_global_get / app_local_get: an absent key reads as uint 0.
Get(store, key) == IF key \in DOMAIN store THEN store[key] ELSE Uint(0)

\* app_global_get_ex: the second result, whether the key is present.
HasValue(store, key) == key \in DOMAIN store

\* app_global_put / app_local_put.
Put(store, key, value) ==
    [k \in (DOMAIN store) \cup {key} |-> IF k = key THEN value ELSE store[k]]

\* A panic of an expression, as a value.
Panic == <<"panic">>

\* Btoi: big-endian decoding; panics on more than UintBytes bytes.
RECURSIVE BtoiVal(_)
BtoiVal(b) ==
    IF Len(b) = 0 THEN 0
    ELSE 2 * BtoiVal(SubSeq(b, 1, Len(b) - 1)) + b[Len(b)]

Btoi(b) == IF Len(b) > UintBytes THEN Panic ELSE Uint(BtoiVal(b))

\* uint addition and subtraction: they panic on an operand that is no uint
\* and on a result outside 0..MaxUint.
Add(a, b) ==
    IF a = Panic \/ b = Panic THEN Panic
    ELSE IF ~(IsUint(a) /\ IsUint(b)) THEN Panic
    ELSE IF a[2] + b[2] > MaxUint THEN Panic
    ELSE Uint(a[2] + b[2])

\* Subtraction that wraps around below 0 instead of failing.
Minus_wraps(a, b) ==
    IF a = Panic \/ b = Panic THEN Panic
    ELSE IF ~(IsUint(a) /\ IsUint(b)) THEN Panic
    ELSE Uint((a[2] - b[2]) % (MaxUint + 1))

\* Subtraction that stops at 0 instead of failing.
Minus_floor(a, b) ==
    IF a = Panic \/ b = Panic THEN Panic
    ELSE IF ~(IsUint(a) /\ IsUint(b)) THEN Panic
    ELSE IF a[2] < b[2] THEN Uint(0)
    ELSE Uint(a[2] - b[2])

Minus(a, b) ==
    IF a = Panic \/ b = Panic THEN Panic
    ELSE IF ~(IsUint(a) /\ IsUint(b)) THEN Panic
    ELSE IF a[2] < b[2] THEN Panic
    ELSE Uint(a[2] - b[2])

\* Txn.application_args[i], 0-based as in the program.
Arg(txn, i) == txn.args[i + 1]
NumArgs(txn) == Len(txn.args)

\* ---- evaluation of a Seq -----------------------------------------------------
\* The evaluation state: the working copy of the store, how the evaluation
\* stands ("run", or why it ended) and the number of puts executed so far.
\* Conditions and values are evaluated on the working copy.
Start(g, l) == [g |-> g, l |-> l, status |-> "run", puts |-> 0]

\* The step of an ended evaluation changes nothing.
\* Assert(cond): a false condition ends the evaluation.  A condition that
\* panics (an `==` on operands of different types) ends it at the same place,
\* so the guards below are false when they panic.
AssertThat(st, Cond(_)) ==
    IF st.status # "run" THEN st
    ELSE IF Cond(st) THEN st
    ELSE [st EXCEPT !.status = "assert"]

\* App.globalPut(key, value).
GlobalPut(st, key, Value(_)) ==
    IF st.status # "run" THEN st
    ELSE IF Value(st) = Panic THEN [st EXCEPT !.status = "panic"]
    ELSE [st EXCEPT !.g = Put(st.g, key, Value(st)), !.puts = st.puts + 1]

\* App.localPut(account, key, value).
LocalPut(st, account, key, Value(_)) ==
    IF st.status # "run" THEN st
    ELSE IF Value(st) = Panic THEN [st EXCEPT !.status = "panic"]
    ELSE [st EXCEPT !.l = [st.l EXCEPT ![account] = Put(st.l[account], key, Value(st))],
                    !.puts = st.puts + 1]

\* Return that approves whatever its value.
Return_approves(st, v) ==
    IF st.status # "run" THEN st
    ELSE [st EXCEPT !.status = "approve"]

\* Return(Int(1)) / Return(Int(0)).
Return(st, v) ==
    IF st.status # "run" THEN st
    ELSE [st EXCEPT !.status = IF v = 1 THEN "approve" ELSE "reject"]

Approved(st) == st.status = "approve"

\* ---- helper utilities ------------------------------------------------------
\* event_key that leaves the event id out.
event_key_tag_only(event_id, suffix) == "::" \o suffix

\* Concat(event_id, Bytes("::"), suffix).
event_key(event_id, suffix) == event_id \o "::" \o suffix

\* is_event_owner that asks only for an owner cell.
is_event_owner_any_sender(g, event_id, sender) ==
    IsBytes(Get(g, event_key(event_id, OWNER_KEY)))

is_event_owner(g, event_id, sender) ==
    LET owner == Get(g, event_key(event_id, OWNER_KEY))
    IN  IsBytes(owner) /\ owner = Bytes(sender)

\* is_event_active without the expiry.
is_event_active_no_expiry(g, event_id, now) ==
    Get(g, event_key(event_id, ACTIVE_KEY)) = Uint(1)

is_event_active(g, event_id, now) ==
    LET expiry == Get(g, event_key(event_id, EXPIRY_DATE_KEY))
        active == Get(g, event_key(event_id, ACTIVE_KEY))
    IN  /\ IsUint(active) /\ active = Uint(1)
        /\ IsUint(expiry)
        /\ (expiry = Uint(0) \/ expiry[2] > now)

\* has_capacity with `<=` for `<`.
has_capacity_off_by_one(g, event_id) ==
    LET max_capacity == Get(g, event_key(event_id, MAX_CAPACITY_KEY))
        registered == Get(g, event_key(event_id, REGISTERED_COUNT_KEY))
    IN  /\ IsUint(max_capacity) /\ IsUint(registered)
        /\ (max_capacity = Uint(0) \/ registered[2] <= max_capacity[2])

has_capacity(g, event_id) ==
    LET max_capacity == Get(g, event_key(event_id, MAX_CAPACITY_KEY))
        registered == Get(g, event_key(event_id, REGISTERED_COUNT_KEY))
    IN  /\ IsUint(max_capacity) /\ IsUint(registered)
        /\ (max_capacity = Uint(0) \/ registered[2] < max_capacity[2])

\* is_already_registered that reads the status of any account.
is_already_registered_any_account(l, event_id, account) ==
    \E a \in DOMAIN l :
        LET status == Get(l[a], event_key(event_id, REG_STATUS_KEY))
        IN  IsUint(status) /\ status # Uint(0)

is_already_registered(l, event_id, account) ==
    LET status == Get(l[account], event_key(event_id, REG_STATUS_KEY))
    IN  IsUint(status) /\ status # Uint(0)

\* The guard of register_event on the status, left out.
is_not_registered_dropped(l, event_id, account) == TRUE

\* is_already_registered(...) == Int(0), the guard of register_event.
is_not_registered(l, event_id, account) ==
    /\ IsUint(Get(l[account], event_key(event_id, REG_STATUS_KEY)))
    /\ ~is_already_registered(l, event_id, account)

\* existing_owner.hasValue() read from the key without the event prefix.
existing_owner_unprefixed(g, event_id) == HasValue(g, OWNER_KEY)

\* existing_owner.hasValue(): the event has an owner cell.
existing_owner(g, event_id) == HasValue(g, event_key(event_id, OWNER_KEY))

\* ---- the operations --------------------------------------------------------
\* on_create without the write of the version.
on_create_without_version(st) ==
    LET s1 == GlobalPut(st, EVENT_COUNT_KEY, LAMBDA t : Uint(0))
        s3 == GlobalPut(s1, TOTAL_REGISTRATIONS_KEY, LAMBDA t : Uint(0))
        s4 == GlobalPut(s3, TOTAL_REVENUE_KEY, LAMBDA t : Uint(0))
    IN  Return(s4, 1)

on_create(st) ==
    LET s1 == GlobalPut(st, EVENT_COUNT_KEY, LAMBDA t : Uint(0))
        s2 == GlobalPut(s1, VERSION_KEY, LAMBDA t : Bytes("2.0.0"))
        s3 == GlobalPut(s2, TOTAL_REGISTRATIONS_KEY, LAMBDA t : Uint(0))
        s4 == GlobalPut(s3, TOTAL_REVENUE_KEY, LAMBDA t : Uint(0))
    IN  Return(s4, 1)

create_event_logic(st, txn, now) ==
    LET event_id == Arg(txn, 1)
        a1 == AssertThat(st, LAMBDA t : NumArgs(txn) >= 8)
        a2 == AssertThat(a1, LAMBDA t : ~existing_owner(t.g, event_id))
        s1 == GlobalPut(a2, event_key(event_id, EVENT_NAME_KEY), LAMBDA t : Bytes(Arg(txn, 2)))
        s2 == GlobalPut(s1, event_key(event_id, CURRENT_URL_KEY), LAMBDA t : Bytes(Arg(txn, 3)))
        s3 == GlobalPut(s2, event_key(event_id, ACCESS_TYPE_KEY), LAMBDA t : Bytes(Arg(txn, 4)))
        s4 == GlobalPut(s3, event_key(event_id, EXPIRY_DATE_KEY), LAMBDA t : Btoi(Arg(txn, 5)))
        s5 == GlobalPut(s4, event_key(event_id, TICKET_PRICE_KEY), LAMBDA t : Btoi(Arg(txn, 6)))
        s6 == GlobalPut(s5, event_key(event_id, MAX_CAPACITY_KEY), LAMBDA t : Btoi(Arg(txn, 7)))
        s7 == GlobalPut(s6, event_key(event_id, CREATED_AT_KEY), LAMBDA t : Uint(now))
        s8 == GlobalPut(s7, event_key(event_id, OWNER_KEY), LAMBDA t : Bytes(txn.sender))
        s9 == GlobalPut(s8, event_key(event_id, SCAN_COUNT_KEY), LAMBDA t : Uint(0))
        s10 == GlobalPut(s9, event_key(event_id, ACTIVE_KEY), LAMBDA t : Uint(1))
        s11 == GlobalPut(s10, event_key(event_id, REGISTERED_COUNT_KEY), LAMBDA t : Uint(0))
        s12 == GlobalPut(s11, event_key(event_id, NFT_ASSET_ID_KEY), LAMBDA t : Uint(0))
        s13 == GlobalPut(s12, EVENT_COUNT_KEY,
                         LAMBDA t : Add(Get(t.g, EVENT_COUNT_KEY), Uint(1)))
    IN  Return(s13, 1)

\* register_event_logic that leaves registered_count as it was.
register_event_logic_uncounted(st, txn, now) ==
    LET event_id == Arg(txn, 1)
        sender == txn.sender
        a1 == AssertThat(st, LAMBDA t : NumArgs(txn) >= 4)
        a2 == AssertThat(a1, LAMBDA t : is_event_active(t.g, event_id, now))
        a3 == AssertThat(a2, LAMBDA t : has_capacity(t.g, event_id))
        a4 == AssertThat(a3, LAMBDA t : is_not_registered(t.l, event_id, sender))
        s1 == LocalPut(a4, sender, event_key(event_id, REG_STATUS_KEY), LAMBDA t : Uint(1))
        s2 == LocalPut(s1, sender, event_key(event_id, REG_DATE_KEY), LAMBDA t : Uint(now))
        s3 == LocalPut(s2, sender, event_key(event_id, REG_TIER_KEY),
                       LAMBDA t : Btoi(Arg(txn, 2)))
        s4 == LocalPut(s3, sender, event_key(event_id, REG_AMOUNT_KEY),
                       LAMBDA t : Btoi(Arg(txn, 3)))
        s5 == LocalPut(s4, sender, event_key(event_id, REG_NFT_KEY), LAMBDA t : Uint(0))
        s7 == GlobalPut(s5, TOTAL_REGISTRATIONS_KEY,
                        LAMBDA t : Add(Get(t.g, TOTAL_REGISTRATIONS_KEY), Uint(1)))
        s8 == GlobalPut(s7, TOTAL_REVENUE_KEY,
                        LAMBDA t : Add(Get(t.g, TOTAL_REVENUE_KEY), Btoi(Arg(txn, 3))))
    IN  Return(s8, 1)

register_event_logic(st, txn, now) ==
    LET event_id == Arg(txn, 1)
        sender == txn.sender
        a1 == AssertThat(st, LAMBDA t : NumArgs(txn) >= 4)
        a2 == AssertThat(a1, LAMBDA t : is_event_active(t.g, event_id, now))
        a3 == AssertThat(a2, LAMBDA t : has_capacity(t.g, event_id))
        a4 == AssertThat(a3, LAMBDA t : is_not_registered(t.l, event_id, sender))
        s1 == LocalPut(a4, sender, event_key(event_id, REG_STATUS_KEY), LAMBDA t : Uint(1))
        s2 == LocalPut(s1, sender, event_key(event_id, REG_DATE_KEY), LAMBDA t : Uint(now))
        s3 == LocalPut(s2, sender, event_key(event_id, REG_TIER_KEY),
                       LAMBDA t : Btoi(Arg(txn, 2)))
        s4 == LocalPut(s3, sender, event_key(event_id, REG_AMOUNT_KEY),
                       LAMBDA t : Btoi(Arg(txn, 3)))
        s5 == LocalPut(s4, sender, event_key(event_id, REG_NFT_KEY), LAMBDA t : Uint(0))
        s6 == GlobalPut(s5, event_key(event_id, REGISTERED_COUNT_KEY),
                        LAMBDA t : Add(Get(t.g, event_key(event_id, REGISTERED_COUNT_KEY)),
                                       Uint(1)))
        s7 == GlobalPut(s6, TOTAL_REGISTRATIONS_KEY,
                        LAMBDA t : Add(Get(t.g, TOTAL_REGISTRATIONS_KEY), Uint(1)))
        s8 == GlobalPut(s7, TOTAL_REVENUE_KEY,
                        LAMBDA t : Add(Get(t.g, TOTAL_REVENUE_KEY), Btoi(Arg(txn, 3))))
    IN  Return(s8, 1)

\* confirm_attendance_logic that marks the record of another account.
confirm_attendance_logic_marks_other(st, txn) ==
    LET event_id == Arg(txn, 1)
        sender == txn.sender
        other == CHOOSE y \in Senders : y # sender
        a1 == AssertThat(st, LAMBDA t : NumArgs(txn) >= 2)
        a2 == AssertThat(a1, LAMBDA t : is_already_registered(t.l, event_id, sender))
        s1 == LocalPut(a2, other, event_key(event_id, REG_STATUS_KEY), LAMBDA t : Uint(2))
        s2 == GlobalPut(s1, event_key(event_id, SCAN_COUNT_KEY),
                        LAMBDA t : Add(Get(t.g, event_key(event_id, SCAN_COUNT_KEY)), Uint(1)))
    IN  Return(s2, 1)

confirm_attendance_logic(st, txn) ==
    LET event_id == Arg(txn, 1)
        sender == txn.sender
        a1 == AssertThat(st, LAMBDA t : NumArgs(txn) >= 2)
        a2 == AssertThat(a1, LAMBDA t : is_already_registered(t.l, event_id, sender))
        s1 == LocalPut(a2, sender, event_key(event_id, REG_STATUS_KEY), LAMBDA t : Uint(2))
        s2 == GlobalPut(s1, event_key(event_id, SCAN_COUNT_KEY),
                        LAMBDA t : Add(Get(t.g, event_key(event_id, SCAN_COUNT_KEY)), Uint(1)))
    IN  Return(s2, 1)

\* mint_nft_logic that asks for two arguments and records no asset id.
mint_nft_logic_two_arguments(st, txn) ==
    LET event_id == Arg(txn, 1)
        sender == txn.sender
        a1 == AssertThat(st, LAMBDA t : NumArgs(txn) >= 2)
        a2 == AssertThat(a1, LAMBDA t : is_already_registered(t.l, event_id, sender))
        a3 == AssertThat(a2, LAMBDA t :
                  Get(t.l[sender], event_key(event_id, REG_STATUS_KEY)) = Uint(2))
        s1 == LocalPut(a3, sender, event_key(event_id, REG_NFT_KEY), LAMBDA t : Uint(1))
    IN  Return(s1, 1)

\* mint_nft_logic without the check of the status against 2.
mint_nft_logic_any_status(st, txn) ==
    LET event_id == Arg(txn, 1)
        sender == txn.sender
        a1 == AssertThat(st, LAMBDA t : NumArgs(txn) >= 3)
        a2 == AssertThat(a1, LAMBDA t : is_already_registered(t.l, event_id, sender))
        s1 == LocalPut(a2, sender, event_key(event_id, REG_NFT_KEY), LAMBDA t : Uint(1))
        s2 == GlobalPut(s1, event_key(event_id, NFT_ASSET_ID_KEY), LAMBDA t : Btoi(Arg(txn, 2)))
    IN  Return(s2, 1)

mint_nft_logic(st, txn) ==
    LET event_id == Arg(txn, 1)
        sender == txn.sender
        a1 == AssertThat(st, LAMBDA t : NumArgs(txn) >= 3)
        a2 == AssertThat(a1, LAMBDA t : is_already_registered(t.l, event_id, sender))
        a3 == AssertThat(a2, LAMBDA t :
                  Get(t.l[sender], event_key(event_id, REG_STATUS_KEY)) = Uint(2))
        s1 == LocalPut(a3, sender, event_key(event_id, REG_NFT_KEY), LAMBDA t : Uint(1))
        s2 == GlobalPut(s1, event_key(event_id, NFT_ASSET_ID_KEY), LAMBDA t : Btoi(Arg(txn, 2)))
    IN  Return(s2, 1)

\* update_url_logic that writes the owner cell instead of the url cell.
update_url_logic_writes_owner(st, txn) ==
    LET event_id == Arg(txn, 1)
        a1 == AssertThat(st, LAMBDA t : NumArgs(txn) >= 3)
        a2 == AssertThat(a1, LAMBDA t : is_event_owner(t.g, event_id, txn.sender))
        s1 == GlobalPut(a2, event_key(event_id, OWNER_KEY), LAMBDA t : Bytes(Arg(txn, 2)))
    IN  Return(s1, 1)

update_url_logic(st, txn) ==
    LET event_id == Arg(txn, 1)
        a1 == AssertThat(st, LAMBDA t : NumArgs(txn) >= 3)
        a2 == AssertThat(a1, LAMBDA t : is_event_owner(t.g, event_id, txn.sender))
        s1 == GlobalPut(a2, event_key(event_id, CURRENT_URL_KEY), LAMBDA t : Bytes(Arg(txn, 2)))
    IN  Return(s1, 1)

\* update_ticket_price_logic that also asks for an event not deactivated.
update_ticket_price_logic_active_only(st, txn) ==
    LET event_id == Arg(txn, 1)
        a1 == AssertThat(st, LAMBDA t : NumArgs(txn) >= 3)
        a2 == AssertThat(a1, LAMBDA t : is_event_owner(t.g, event_id, txn.sender))
        a3 == AssertThat(a2, LAMBDA t : Get(t.g, event_key(event_id, ACTIVE_KEY)) = Uint(1))
        s1 == GlobalPut(a3, event_key(event_id, TICKET_PRICE_KEY), LAMBDA t : Btoi(Arg(txn, 2)))
    IN  Return(s1, 1)

update_ticket_price_logic(st, txn) ==
    LET event_id == Arg(txn, 1)
        a1 == AssertThat(st, LAMBDA t : NumArgs(txn) >= 3)
        a2 == AssertThat(a1, LAMBDA t : is_event_owner(t.g, event_id, txn.sender))
        s1 == GlobalPut(a2, event_key(event_id, TICKET_PRICE_KEY), LAMBDA t : Btoi(Arg(txn, 2)))
    IN  Return(s1, 1)

\* deactivate_event_logic that activates a deactivated event.
deactivate_event_logic_toggles(st, txn) ==
    LET event_id == Arg(txn, 1)
        a1 == AssertThat(st, LAMBDA t : NumArgs(txn) >= 2)
        a2 == AssertThat(a1, LAMBDA t : is_event_owner(t.g, event_id, txn.sender))
        s1 == GlobalPut(a2, event_key(event_id, ACTIVE_KEY),
                        LAMBDA t : IF Get(t.g, event_key(event_id, ACTIVE_KEY)) = Uint(1)
                                   THEN Uint(0) ELSE Uint(1))
    IN  Return(s1, 1)

\* deactivate_event_logic with the write moved before the owner check.
deactivate_event_logic_write_first(st, txn) ==
    LET event_id == Arg(txn, 1)
        a1 == AssertThat(st, LAMBDA t : NumArgs(txn) >= 2)
        s1 == GlobalPut(a1, event_key(event_id, ACTIVE_KEY), LAMBDA t : Uint(0))
        a2 == AssertThat(s1, LAMBDA t : is_event_owner(t.g, event_id, txn.sender))
    IN  Return(a2, 1)

deactivate_event_logic(st, txn) ==
    LET event_id == Arg(txn, 1)
        a1 == AssertThat(st, LAMBDA t : NumArgs(txn) >= 2)
        a2 == AssertThat(a1, LAMBDA t : is_event_owner(t.g, event_id, txn.sender))
        s1 == GlobalPut(a2, event_key(event_id, ACTIVE_KEY), LAMBDA t : Uint(0))
    IN  Return(s1, 1)

\* increment_scan_logic without the check that the event is active.
increment_scan_logic_unguarded(st, txn, now) ==
    LET event_id == Arg(txn, 1)
        a1 == AssertThat(st, LAMBDA t : NumArgs(txn) >= 2)
        s1 == GlobalPut(a1, event_key(event_id, SCAN_COUNT_KEY),
                        LAMBDA t : Add(Get(t.g, event_key(event_id, SCAN_COUNT_KEY)), Uint(1)))
    IN  Return(s1, 1)

increment_scan_logic(st, txn, now) ==
    LET event_id == Arg(txn, 1)
        a1 == AssertThat(st, LAMBDA t : NumArgs(txn) >= 2)
        a2 == AssertThat(a1, LAMBDA t : is_event_active(t.g, event_id, now))
        s1 == GlobalPut(a2, event_key(event_id, SCAN_COUNT_KEY),
                        LAMBDA t : Add(Get(t.g, event_key(event_id, SCAN_COUNT_KEY)), Uint(1)))
    IN  Return(s1, 1)

\* refund_registration_logic that takes one unit off the total revenue.
refund_registration_logic_returns_payment(st, txn) ==
    LET event_id == Arg(txn, 1)
        a1 == AssertThat(st, LAMBDA t : NumArgs(txn) >= 2)
        a2 == AssertThat(a1, LAMBDA t : is_event_owner(t.g, event_id, txn.sender))
        s1 == GlobalPut(a2, event_key(event_id, REGISTERED_COUNT_KEY),
                        LAMBDA t : Minus(Get(t.g, event_key(event_id, REGISTERED_COUNT_KEY)),
                                         Uint(1)))
        s2 == GlobalPut(s1, TOTAL_REGISTRATIONS_KEY,
                        LAMBDA t : Minus(Get(t.g, TOTAL_REGISTRATIONS_KEY), Uint(1)))
        s3 == GlobalPut(s2, TOTAL_REVENUE_KEY,
                        LAMBDA t : Minus(Get(t.g, TOTAL_REVENUE_KEY), Uint(1)))
    IN  Return(s3, 1)

\* refund_registration_logic that also resets the caller's registration.
refund_registration_logic_resets_status(st, txn) ==
    LET event_id == Arg(txn, 1)
        a1 == AssertThat(st, LAMBDA t : NumArgs(txn) >= 2)
        a2 == AssertThat(a1, LAMBDA t : is_event_owner(t.g, event_id, txn.sender))
        s1 == GlobalPut(a2, event_key(event_id, REGISTERED_COUNT_KEY),
                        LAMBDA t : Minus(Get(t.g, event_key(event_id, REGISTERED_COUNT_KEY)),
                                         Uint(1)))
        s2 == GlobalPut(s1, TOTAL_REGISTRATIONS_KEY,
                        LAMBDA t : Minus(Get(t.g, TOTAL_REGISTRATIONS_KEY), Uint(1)))
        s3 == LocalPut(s2, txn.sender, event_key(event_id, REG_STATUS_KEY),
                       LAMBDA t : Uint(0))
    IN  Return(s3, 1)

refund_registration_logic(st, txn) ==
    LET event_id == Arg(txn, 1)
        a1 == AssertThat(st, LAMBDA t : NumArgs(txn) >= 2)
        a2 == AssertThat(a1, LAMBDA t : is_event_owner(t.g, event_id, txn.sender))
        s1 == GlobalPut(a2, event_key(event_id, REGISTERED_COUNT_KEY),
                        LAMBDA t : Minus(Get(t.g, event_key(event_id, REGISTERED_COUNT_KEY)),
                                         Uint(1)))
        s2 == GlobalPut(s1, TOTAL_REGISTRATIONS_KEY,
                        LAMBDA t : Minus(Get(t.g, TOTAL_REGISTRATIONS_KEY), Uint(1)))
    IN  Return(s2, 1)

\* The dispatcher whose last branch takes every selector left.
dynamic_qr_contract_last_branch_default(app_id, g, l, txn, now) ==
    IF app_id = 0 THEN on_create(Start(g, l))
    ELSE IF txn.on_completion = OptIn THEN Return(Start(g, l), 1)
    ELSE IF txn.on_completion = CloseOut THEN Return(Start(g, l), 1)
    ELSE IF txn.on_completion = UpdateApplication THEN Return(Start(g, l), 0)
    ELSE IF txn.on_completion = DeleteApplication THEN Return(Start(g, l), 0)
    ELSE IF NumArgs(txn) = 0 THEN [Start(g, l) EXCEPT !.status = "panic"]
    ELSE IF Arg(txn, 0) = CREATE_EVENT THEN create_event_logic(Start(g, l), txn, now)
    ELSE IF Arg(txn, 0) = REGISTER_EVENT THEN register_event_logic(Start(g, l), txn, now)
    ELSE IF Arg(txn, 0) = CONFIRM_ATTENDANCE THEN confirm_attendance_logic(Start(g, l), txn)
    ELSE IF Arg(txn, 0) = MINT_NFT THEN mint_nft_logic(Start(g, l), txn)
    ELSE IF Arg(txn, 0) = UPDATE_URL THEN update_url_logic(Start(g, l), txn)
    ELSE IF Arg(txn, 0) = UPDATE_TICKET_PRICE THEN update_ticket_price_logic(Start(g, l), txn)
    ELSE IF Arg(txn, 0) = DEACTIVATE_EVENT THEN deactivate_event_logic(Start(g, l), txn)
    ELSE IF Arg(txn, 0) = INCREMENT_SCAN THEN increment_scan_logic(Start(g, l), txn, now)
    ELSE refund_registration_logic(Start(g, l), txn)

\* ---- the approval program: the Cond, first matching branch wins -----------
\* Reading application_args[0] of a call without arguments panics, and a Cond
\* none of whose conditions holds fails.
\* The Cond with the opt-in and close-out branches after the branches of
\* register_event and confirm_attendance.
dynamic_qr_contract_operations_first(app_id, g, l, txn, now) ==
    IF app_id = 0 THEN on_create(Start(g, l))
    ELSE IF txn.on_completion = UpdateApplication THEN Return(Start(g, l), 0)
    ELSE IF txn.on_completion = DeleteApplication THEN Return(Start(g, l), 0)
    ELSE IF NumArgs(txn) = 0 THEN [Start(g, l) EXCEPT !.status = "panic"]
    ELSE IF Arg(txn, 0) = REGISTER_EVENT THEN register_event_logic(Start(g, l), txn, now)
    ELSE IF Arg(txn, 0) = CONFIRM_ATTENDANCE THEN confirm_attendance_logic(Start(g, l), txn)
    ELSE IF txn.on_completion = OptIn THEN Return(Start(g, l), 1)
    ELSE IF txn.on_completion = CloseOut THEN Return(Start(g, l), 1)
    ELSE IF Arg(txn, 0) = CREATE_EVENT THEN create_event_logic(Start(g, l), txn, now)
    ELSE IF Arg(txn, 0) = MINT_NFT THEN mint_nft_logic(Start(g, l), txn)
    ELSE IF Arg(txn, 0) = UPDATE_URL THEN update_url_logic(Start(g, l), txn)
    ELSE IF Arg(txn, 0) = UPDATE_TICKET_PRICE THEN update_ticket_price_logic(Start(g, l), txn)
    ELSE IF Arg(txn, 0) = DEACTIVATE_EVENT THEN deactivate_event_logic(Start(g, l), txn)
    ELSE IF Arg(txn, 0) = INCREMENT_SCAN THEN increment_scan_logic(Start(g, l), txn, now)
    ELSE IF Arg(txn, 0) = REFUND_REGISTRATION THEN refund_registration_logic(Start(g, l), txn)
    ELSE [Start(g, l) EXCEPT !.status = "nomatch"]

dynamic_qr_contract(app_id, g, l, txn, now) ==
    IF app_id = 0 THEN on_create(Start(g, l))
    ELSE IF txn.on_completion = OptIn THEN Return(Start(g, l), 1)
    ELSE IF txn.on_completion = CloseOut THEN Return(Start(g, l), 1)
    ELSE IF txn.on_completion = UpdateApplication THEN Return(Start(g, l), 0)
    ELSE IF txn.on_completion = DeleteApplication THEN Return(Start(g, l), 0)
    ELSE IF NumArgs(txn) = 0 THEN [Start(g, l) EXCEPT !.status = "panic"]
    ELSE IF Arg(txn, 0) = CREATE_EVENT THEN create_event_logic(Start(g, l), txn, now)
    ELSE IF Arg(txn, 0) = REGISTER_EVENT THEN register_event_logic(Start(g, l), txn, now)
    ELSE IF Arg(txn, 0) = CONFIRM_ATTENDANCE THEN confirm_attendance_logic(Start(g, l), txn)
    ELSE IF Arg(txn, 0) = MINT_NFT THEN mint_nft_logic(Start(g, l), txn)
    ELSE IF Arg(txn, 0) = UPDATE_URL THEN update_url_logic(Start(g, l), txn)
    ELSE IF Arg(txn, 0) = UPDATE_TICKET_PRICE THEN update_ticket_price_logic(Start(g, l), txn)
    ELSE IF Arg(txn, 0) = DEACTIVATE_EVENT THEN deactivate_event_logic(Start(g, l), txn)
    ELSE IF Arg(txn, 0) = INCREMENT_SCAN THEN increment_scan_logic(Start(g, l), txn, now)
    ELSE IF Arg(txn, 0) = REFUND_REGISTRATION THEN refund_registration_logic(Start(g, l), txn)
    ELSE [Start(g, l) EXCEPT !.status = "nomatch"]

\* ---- the calls the model submits ------------------------------------------
\* Encodings of uints as call arguments.  OnePadded decodes to the same value
\* as One; TooLong has one byte more than Btoi accepts.
Zero == << >>
One == <<1>>
OnePadded == <<0, 1>>
AllOnes == [i \in 1..UintBytes |-> 1]
TooLong == [i \in 1..(UintBytes + 1) |-> IF i = 1 THEN 1 ELSE 0]

Names == {"Conf"}
CreateUrls == {"https://x"}
UpdateUrls == {"https://x"}
AccessTypes == {"public"}
ExpiryArgs == {Zero, One}
CreatePriceArgs == {One}
UpdatePriceArgs == {One, TooLong}
CapacityArgs == {Zero, One, TooLong}
TierArgs == {OnePadded}
AmountArgs == {One, AllOnes, TooLong}
AssetArgs == {One}
OnCompletions == {NoOp, OptIn, CloseOut, UpdateApplication, DeleteApplication}

CreateEventArgs ==
    {<<CREATE_EVENT, e, n, u, a, x, p, c>> :
        e \in EventIds, n \in Names, u \in CreateUrls, a \in AccessTypes,
        x \in ExpiryArgs, p \in CreatePriceArgs, c \in CapacityArgs}
RegisterEventArgs ==
    {<<REGISTER_EVENT, e, t, m>> : e \in EventIds, t \in TierArgs, m \in AmountArgs}
ConfirmAttendanceArgs ==
    {<<CONFIRM_ATTENDANCE, e>> : e \in EventIds} \cup
    {<<CONFIRM_ATTENDANCE, e, "sig">> : e \in EventIds}
MintNftArgs == {<<MINT_NFT, e, n>> : e \in EventIds, n \in AssetArgs}
UpdateUrlArgs == {<<UPDATE_URL, e, u>> : e \in EventIds, u \in UpdateUrls}
UpdateTicketPriceArgs ==
    {<<UPDATE_TICKET_PRICE, e, p>> : e \in EventIds, p \in UpdatePriceArgs}
DeactivateEventArgs == {<<DEACTIVATE_EVENT, e>> : e \in EventIds}
IncrementScanArgs == {<<INCREMENT_SCAN, e>> : e \in EventIds}
RefundRegistrationArgs == {<<REFUND_REGISTRATION, e>> : e \in EventIds}
UnknownArgs == {<< >>} \cup {<<"get_event", e>> : e \in EventIds}
LifecycleArgs == {<<REGISTER_EVENT, e, OnePadded, One>> : e \in EventIds}

\* The argument lists of S with the last argument left out.
Truncated(S) == {SubSeq(a, 1, Len(a) - 1) : a \in S}

Txn(sender, on_completion, args) ==
    [sender |-> sender, on_completion |-> on_completion, args |-> args]

\* ---- the history variable ----------------------------------------------------
\* history[op][<<sender, event_id>>]: the approved calls of op by sender for
\* event_id, counted as 0, 1 or 2 (two or more).
Counted == {CREATE_EVENT, REGISTER_EVENT, MINT_NFT, REFUND_REGISTRATION}

NoHistory == [op \in Counted |-> [p \in Senders \X EventIds |-> 0]]

OneMore(n) == IF n < 2 THEN n + 1 ELSE 2

Record(h, app_id, txn) ==
    IF /\ app_id # 0 /\ txn.on_completion = NoOp /\ NumArgs(txn) >= 2
       /\ Arg(txn, 0) \in Counted /\ Arg(txn, 1) \in EventIds
    THEN [h EXCEPT ![Arg(txn, 0)][<<txn.sender, Arg(txn, 1)>>] = OneMore(@)]
    ELSE h

\* ---- Init and the actions ----------------------------------------------------
Init ==
    /\ application_id = 0
    /\ global = EmptyStore
    /\ local = [s \in Senders |-> EmptyStore]
    /\ latest_timestamp = 0
    /\ history = NoHistory

\* The outcome of the approval program on txn in the current state.
Outcome(txn) ==
    dynamic_qr_contract(application_id, global, local, txn, latest_timestamp)

\* The store after a call with outcome r: the ledger keeps the writes of an
\* approved call and none of a rejected one.
Commit(r) ==
    [global |-> IF Approved(r) THEN r.g ELSE global,
     local |-> IF Approved(r) THEN r.l ELSE local,
     approved |-> Approved(r)]

\* One application call.
Submit(txn) ==
    \E c \in {Commit(Outcome(txn))} :
        /\ global' = c.global
        /\ local' = c.local
        /\ application_id' = IF application_id = 0 /\ c.approved THEN 1 ELSE application_id
        /\ history' = IF c.approved THEN Record(history, application_id, txn) ELSE history
        /\ UNCHANGED latest_timestamp

\* The creating call: Txn.application_id() is 0.
OnCreate ==
    /\ application_id = 0
    /\ \E s \in Senders, oc \in OnCompletions, a \in {<< >>} \cup LifecycleArgs :
           Submit(Txn(s, oc, a))

OptInCall ==
    /\ application_id # 0
    /\ \E s \in Senders, a \in LifecycleArgs : Submit(Txn(s, OptIn, a))

CloseOutCall ==
    /\ application_id # 0
    /\ \E s \in Senders, a \in LifecycleArgs : Submit(Txn(s, CloseOut, a))

UpdateApplicationCall ==
    /\ application_id # 0
    /\ \E s \in Senders, a \in LifecycleArgs : Submit(Txn(s, UpdateApplication, a))

DeleteApplicationCall ==
    /\ application_id # 0
    /\ \E s \in Senders, a \in LifecycleArgs : Submit(Txn(s, DeleteApplication, a))

\* The ordinary calls, one action for each selector; each also submits its
\* argument lists with the last argument left out.
CreateEvent ==
    /\ application_id # 0
    /\ \E s \in Senders, a \in CreateEventArgs \cup Truncated(CreateEventArgs) :
           Submit(Txn(s, NoOp, a))

RegisterEvent ==
    /\ application_id # 0
    /\ \E s \in Senders, a \in RegisterEventArgs \cup Truncated(RegisterEventArgs) :
           Submit(Txn(s, NoOp, a))

ConfirmAttendance ==
    /\ application_id # 0
    /\ \E s \in Senders, a \in ConfirmAttendanceArgs \cup Truncated(ConfirmAttendanceArgs) :
           Submit(Txn(s, NoOp, a))

MintNft ==
    /\ application_id # 0
    /\ \E s \in Senders, a \in MintNftArgs \cup Truncated(MintNftArgs) :
           Submit(Txn(s, NoOp, a))

UpdateUrl ==
    /\ application_id # 0
    /\ \E s \in Senders, a \in UpdateUrlArgs \cup Truncated(UpdateUrlArgs) :
           Submit(Txn(s, NoOp, a))

UpdateTicketPrice ==
    /\ application_id # 0
    /\ \E s \in Senders, a \in UpdateTicketPriceArgs \cup Truncated(UpdateTicketPriceArgs) :
           Submit(Txn(s, NoOp, a))

DeactivateEvent ==
    /\ application_id # 0
    /\ \E s \in Senders, a \in DeactivateEventArgs \cup Truncated(DeactivateEventArgs) :
           Submit(Txn(s, NoOp, a))

IncrementScan ==
    /\ application_id # 0
    /\ \E s \in Senders, a \in IncrementScanArgs \cup Truncated(IncrementScanArgs) :
           Submit(Txn(s, NoOp, a))

RefundRegistration ==
    /\ application_id # 0
    /\ \E s \in Senders, a \in RefundRegistrationArgs \cup Truncated(RefundRegistrationArgs) :
           Submit(Txn(s, NoOp, a))

UnknownCall ==
    /\ application_id # 0
    /\ \E s \in Senders, a \in UnknownArgs : Submit(Txn(s, NoOp, a))

\* The block timestamp the next call sees; it never decreases.
Tick ==
    /\ latest_timestamp < MaxTime
    /\ latest_timestamp' = latest_timestamp + 1
    /\ UNCHANGED <<application_id, global, local, history>>

Next ==
    \/ OnCreate
    \/ OptInCall
    \/ CloseOutCall
    \/ UpdateApplicationCall
    \/ DeleteApplicationCall
    \/ CreateEvent
    \/ RegisterEvent
    \/ ConfirmAttendance
    \/ MintNft
    \/ UpdateUrl
    \/ UpdateTicketPrice
    \/ DeactivateEvent
    \/ IncrementScan
    \/ RefundRegistration
    \/ UnknownCall
    \/ Tick

Spec == Init /\ [][Next]_vars


\* ---- what the claims observe ---------------------------------------------------
\* The fields of the records, read from the partitions g and l.
Field(g, e, suffix) == Get(g, event_key(e, suffix))
Created(g, e) == event_key(e, OWNER_KEY) \in DOMAIN g
Owner(g, e) == Field(g, e, OWNER_KEY)[2]
UintField(g, e, suffix) == Field(g, e, suffix)[2]
RegField(l, s, e, suffix) == Get(l[s], event_key(e, suffix))[2]

NONE == 0
CONFIRMED == 1
ATTENDED == 2

Status(l, s, e) == RegField(l, s, e, REG_STATUS_KEY)
NftMinted(l, s, e) == RegField(l, s, e, REG_NFT_KEY)

\* The ordinary calls with the argument lists S, complete and with the last
\* argument left out, and all the calls the actions submit once the
\* application exists.
Calls(S) == {Txn(s, NoOp, a) : s \in Senders, a \in S \cup Truncated(S)}
OperationArgs ==
    CreateEventArgs \cup RegisterEventArgs \cup ConfirmAttendanceArgs \cup MintNftArgs
    \cup UpdateUrlArgs \cup UpdateTicketPriceArgs \cup DeactivateEventArgs
    \cup IncrementScanArgs \cup RefundRegistrationArgs
AllCalls ==
    Calls(OperationArgs) \cup
    {Txn(s, NoOp, a) : s \in Senders, a \in UnknownArgs} \cup
    {Txn(s, oc, a) : s \in Senders, oc \in OnCompletions \ {NoOp}, a \in LifecycleArgs}

Selector(txn) == Arg(txn, 0)
EventOf(txn) == Arg(txn, 1)
Initialized == application_id # 0

\* ---- C1 ---------------------------------------------------------------------
\* C1: in every reachable state, every event with max_capacity > 0 has
\* registered_count <= max_capacity.
C1_CapacityRespected ==
    \A e \in EventIds :
        UintField(global, e, MAX_CAPACITY_KEY) > 0 =>
            UintField(global, e, REGISTERED_COUNT_KEY)
                <= UintField(global, e, MAX_CAPACITY_KEY)

\* A full event: registrations reached the capacity while the event is still
\* active, and the register_event of an identity that has not registered is
\* rejected.
C1_Witness ==
    \E e \in EventIds, s \in Senders :
        /\ UintField(global, e, MAX_CAPACITY_KEY) = 1
        /\ UintField(global, e, REGISTERED_COUNT_KEY) = 1
        /\ UintField(global, e, ACTIVE_KEY) = 1
        /\ Status(local, s, e) = NONE
        /\ \E r \in Senders : Status(local, r, e) = CONFIRMED
        /\ Outcome(Txn(s, NoOp, <<REGISTER_EVENT, e, OnePadded, One>>)).status = "assert"

\* ---- C2 ---------------------------------------------------------------------
\* The numeric arguments of a create_event call decode: none is longer than a
\* uint.
CreateArgsDecode(txn) ==
    \A i \in 5..7 : Len(Arg(txn, i)) <= UintBytes

\* The approved create_event calls for e are at most one, over all callers.
CreatedAtMostOnce(e) ==
    /\ \A s \in Senders : history[CREATE_EVENT][<<s, e>>] <= 1
    /\ \A s, r \in Senders :
           s # r => history[CREATE_EVENT][<<s, e>>] = 0 \/ history[CREATE_EVENT][<<r, e>>] = 0
    /\ Created(global, e) <=> \E s \in Senders : history[CREATE_EVENT][<<s, e>>] = 1

\* C2 as stated: create_event is approved at most once for an event id, every
\* create_event with 8 arguments for a never-created event id is approved, and
\* every create_event for a created one is rejected.
C2_AnyFirstCreateSucceeds ==
    Initialized =>
        \A txn \in Calls(CreateEventArgs) :
            NumArgs(txn) >= 8 =>
                /\ CreatedAtMostOnce(EventOf(txn))
                /\ Approved(Outcome(txn)) <=> ~Created(global, EventOf(txn))

\* C2, amended: create_event is approved at most once for an event id; a
\* create_event with 8 arguments for a never-created event id is approved when
\* its expiry, price and capacity arguments decode and event_count is below the
\* largest uint; every create_event for a created event id is rejected, by any
\* caller and also after deactivation.
C2_CreateAtMostOnce ==
    Initialized =>
        \A txn \in Calls(CreateEventArgs) :
            NumArgs(txn) >= 8 =>
                /\ CreatedAtMostOnce(EventOf(txn))
                /\ Created(global, EventOf(txn)) => ~Approved(Outcome(txn))
                /\ ( /\ ~Created(global, EventOf(txn))
                     /\ CreateArgsDecode(txn)
                     /\ Get(global, EVENT_COUNT_KEY)[2] < MaxUint )
                   => Approved(Outcome(txn))

\* A created event, deactivated by its owner, on which the owner's create_event
\* is rejected.
C2_Witness ==
    \E e \in EventIds, s \in Senders :
        /\ history[CREATE_EVENT][<<s, e>>] = 1
        /\ Owner(global, e) = s
        /\ UintField(global, e, ACTIVE_KEY) = 0
        /\ \E a \in CreateEventArgs :
               CreateArgsDecode(Txn(s, NoOp, a)) /\ ~Approved(Outcome(Txn(s, NoOp, a)))

\* ---- C3 ---------------------------------------------------------------------
\* C3: for every identity and event, mint_nft is approved at most once: after
\* one approved mint_nft every further mint_nft by that identity for that event
\* is rejected.
C3_MintAtMostOnce ==
    \A s \in Senders, e \in EventIds :
        /\ history[MINT_NFT][<<s, e>>] <= 1
        /\ history[MINT_NFT][<<s, e>>] = 1 =>
               \A a \in MintNftArgs :
                   EventOf(Txn(s, NoOp, a)) = e => ~Approved(Outcome(Txn(s, NoOp, a)))

\* ---- C4 ---------------------------------------------------------------------
OwnerGatedArgs ==
    UpdateUrlArgs \cup UpdateTicketPriceArgs \cup DeactivateEventArgs
    \cup RefundRegistrationArgs

\* The sender of txn is the recorded owner of the event txn names.
ByOwner(txn) ==
    /\ Created(global, EventOf(txn))
    /\ Owner(global, EventOf(txn)) = txn.sender

\* C4: update_url, update_ticket_price, deactivate_event and refund_registration
\* are rejected and leave the store as it was whenever the caller is not the
\* recorded owner of the event, also when the event was never created.
C4_OwnerGated ==
    Initialized =>
        \A txn \in Calls(OwnerGatedArgs) :
            (NumArgs(txn) >= 2 /\ ~ByOwner(txn)) =>
                /\ ~Approved(Outcome(txn))
                /\ Commit(Outcome(txn)).global = global
                /\ Commit(Outcome(txn)).local = local

\* An active event with a registration, on which every owner-gated call of an
\* identity other than the owner stops at the owner check.
C4_Witness ==
    \E e \in EventIds, s \in Senders :
        /\ Created(global, e)
        /\ Owner(global, e) # s
        /\ UintField(global, e, ACTIVE_KEY) = 1
        /\ UintField(global, e, REGISTERED_COUNT_KEY) = 1
        /\ \A a \in OwnerGatedArgs : Outcome(Txn(s, NoOp, a)).status = "assert"

\* ---- C5 ---------------------------------------------------------------------
\* C5: a rejected call (failed guard, too few arguments, unknown selector,
\* rejected update or delete, failed decoding or arithmetic) leaves the global
\* partition and every local partition as they were, and a call that stops at
\* a guard, a Return(0) or the dispatcher has executed no write before.
C5_AbortsWriteNothing ==
    Initialized =>
        \A txn \in AllCalls :
            LET r == Outcome(txn)
                c == Commit(r)
            IN  /\ ~Approved(r) => c.global = global /\ c.local = local
                /\ r.status \in {"assert", "reject", "nomatch"} =>
                       r.puts = 0 /\ r.g = global /\ r.l = local

\* A created event on which a register_event fails while decoding its amount,
\* after three writes, and a second create_event stops at its guard.
C5_Witness ==
    /\ Initialized
    /\ \E txn \in Calls(RegisterEventArgs) :
           /\ Outcome(txn).status = "panic"
           /\ Outcome(txn).puts = 3
           /\ Outcome(txn).l # local
           /\ Commit(Outcome(txn)).local = local
    /\ \E txn \in Calls(CreateEventArgs) :
           NumArgs(txn) >= 8 /\ Outcome(txn).status = "assert"

\* ---- C6 ---------------------------------------------------------------------
\* The guards of register_event in the words of the claim.
IsActive(e) ==
    /\ UintField(global, e, ACTIVE_KEY) = 1
    /\ \/ UintField(global, e, EXPIRY_DATE_KEY) = 0
       \/ UintField(global, e, EXPIRY_DATE_KEY) > latest_timestamp

HasCapacity(e) ==
    \/ UintField(global, e, MAX_CAPACITY_KEY) = 0
    \/ UintField(global, e, REGISTERED_COUNT_KEY) < UintField(global, e, MAX_CAPACITY_KEY)

RegisterGuards(txn) ==
    /\ IsActive(EventOf(txn))
    /\ HasCapacity(EventOf(txn))
    /\ Status(local, txn.sender, EventOf(txn)) = NONE

\* The tier and the amount of a register_event call decode, and none of the
\* three counters it raises passes the largest uint.
RegisterInRange(txn) ==
    /\ Len(Arg(txn, 2)) <= UintBytes
    /\ Len(Arg(txn, 3)) <= UintBytes
    /\ UintField(global, EventOf(txn), REGISTERED_COUNT_KEY) < MaxUint
    /\ Get(global, TOTAL_REGISTRATIONS_KEY)[2] < MaxUint
    /\ Get(global, TOTAL_REVENUE_KEY)[2] + BtoiVal(Arg(txn, 3)) <= MaxUint

\* What an approved register_event has written.
RegisterEffects(txn) ==
    LET c == Commit(Outcome(txn))
        s == txn.sender
        e == EventOf(txn)
    IN  /\ Status(c.local, s, e) = CONFIRMED
        /\ NftMinted(c.local, s, e) = 0
        /\ RegField(c.local, s, e, REG_TIER_KEY) = BtoiVal(Arg(txn, 2))
        /\ RegField(c.local, s, e, REG_AMOUNT_KEY) = BtoiVal(Arg(txn, 3))
        /\ RegField(c.local, s, e, REG_DATE_KEY) = latest_timestamp
        /\ UintField(c.global, e, REGISTERED_COUNT_KEY)
               = UintField(global, e, REGISTERED_COUNT_KEY) + 1
        /\ Get(c.global, TOTAL_REGISTRATIONS_KEY)[2]
               = Get(global, TOTAL_REGISTRATIONS_KEY)[2] + 1
        /\ Get(c.global, TOTAL_REVENUE_KEY)[2]
               = Get(global, TOTAL_REVENUE_KEY)[2] + BtoiVal(Arg(txn, 3))

\* C6 as stated: a register_event with 4 arguments is approved if and only if
\* the event is active, has capacity and the sender's status is NONE, and an
\* approved one has the effects of the claim.
C6_RegisterIffGuards ==
    Initialized =>
        \A txn \in Calls(RegisterEventArgs) :
            NumArgs(txn) >= 4 =>
                /\ Approved(Outcome(txn)) <=> RegisterGuards(txn)
                /\ Approved(Outcome(txn)) => RegisterEffects(txn)

\* C6, amended: a register_event with 4 arguments whose tier and amount decode
\* and whose three counters stay within a uint is approved if and only if the
\* event is active, has capacity and the sender's status is NONE; no
\* register_event is approved without these guards; an approved one sets the
\* record to CONFIRMED with nft_minted false and the decoded tier and amount,
\* and adds 1 to registered_count, 1 to total_registrations and the amount to
\* total_revenue.
C6_RegisterIffGuardsInRange ==
    Initialized =>
        \A txn \in Calls(RegisterEventArgs) :
            NumArgs(txn) >= 4 =>
                /\ Approved(Outcome(txn)) => RegisterGuards(txn) /\ RegisterInRange(txn)
                /\ (RegisterGuards(txn) /\ RegisterInRange(txn)) => Approved(Outcome(txn))
                /\ Approved(Outcome(txn)) => RegisterEffects(txn)

\* A state after an approved register_event in which the three guards and the
\* ranges decide four calls differently: the registered sender is rejected,
\* another sender is approved with a small amount, and is rejected with an
\* amount that takes total_revenue past the largest uint.
C6_Witness ==
    \E e \in EventIds, s, r \in Senders :
        /\ history[REGISTER_EVENT][<<s, e>>] = 1
        /\ Status(local, s, e) = CONFIRMED
        /\ Get(global, TOTAL_REVENUE_KEY)[2] = 1
        /\ ~Approved(Outcome(Txn(s, NoOp, <<REGISTER_EVENT, e, OnePadded, One>>)))
        /\ Approved(Outcome(Txn(r, NoOp, <<REGISTER_EVENT, e, OnePadded, One>>)))
        /\ RegisterGuards(Txn(r, NoOp, <<REGISTER_EVENT, e, OnePadded, AllOnes>>))
        /\ ~Approved(Outcome(Txn(r, NoOp, <<REGISTER_EVENT, e, OnePadded, AllOnes>>)))

\* ---- C7 ---------------------------------------------------------------------
\* C7: a confirm_attendance by an identity for an event is approved only if a
\* register_event by the same identity for the same event was approved before,
\* and never for an identity whose status for the event is NONE; the status is
\* other than NONE exactly where such a register_event was approved.
C7_ConfirmNeedsRegistration ==
    /\ \A s \in Senders, e \in EventIds :
           Status(local, s, e) # NONE <=> history[REGISTER_EVENT][<<s, e>>] >= 1
    /\ Initialized =>
           \A txn \in Calls(ConfirmAttendanceArgs) :
               (NumArgs(txn) >= 2 /\ Approved(Outcome(txn))) =>
                   /\ history[REGISTER_EVENT][<<txn.sender, EventOf(txn)>>] >= 1
                   /\ Status(local, txn.sender, EventOf(txn)) # NONE

\* One identity has registered and confirmed; the confirm_attendance of an
\* identity that never registered is rejected.
C7_Witness ==
    \E e \in EventIds, s, r \in Senders :
        /\ Status(local, s, e) = ATTENDED
        /\ history[REGISTER_EVENT][<<s, e>>] = 1
        /\ history[REGISTER_EVENT][<<r, e>>] = 0
        /\ ~Approved(Outcome(Txn(r, NoOp, <<CONFIRM_ATTENDANCE, e>>)))
        /\ Approved(Outcome(Txn(s, NoOp, <<CONFIRM_ATTENDANCE, e>>)))

\* ---- C8 ---------------------------------------------------------------------
ScanSelectors == {CONFIRM_ATTENDANCE, INCREMENT_SCAN}

\* txn is an approved confirm_attendance or increment_scan for e.
ScansEvent(txn, e) ==
    /\ Approved(Outcome(txn))
    /\ txn.on_completion = NoOp
    /\ NumArgs(txn) >= 2
    /\ Selector(txn) \in ScanSelectors
    /\ EventOf(txn) = e

\* C8: the scan_count of a created event grows by exactly 1 with each approved
\* confirm_attendance or increment_scan for the event and is left as it was by
\* every other call; an increment_scan is approved only while the event is
\* active and unexpired.
C8_ScanCount ==
    Initialized =>
        \A txn \in AllCalls :
            /\ \A e \in EventIds :
                   Created(global, e) =>
                       UintField(Commit(Outcome(txn)).global, e, SCAN_COUNT_KEY)
                           = UintField(global, e, SCAN_COUNT_KEY)
                               + (IF ScansEvent(txn, e) THEN 1 ELSE 0)
            /\ ( /\ txn.on_completion = NoOp /\ NumArgs(txn) >= 2
                 /\ Selector(txn) = INCREMENT_SCAN /\ Approved(Outcome(txn)) )
               => IsActive(EventOf(txn))

\* Two scans were counted, one identity has confirmed, and on the expired or
\* deactivated event a confirm_attendance still counts while an increment_scan
\* is rejected.
C8_Witness ==
    \E e \in EventIds, s, r \in Senders :
        /\ UintField(global, e, SCAN_COUNT_KEY) = 2
        /\ Status(local, s, e) = ATTENDED
        /\ ~IsActive(e)
        /\ ScansEvent(Txn(s, NoOp, <<CONFIRM_ATTENDANCE, e>>), e)
        /\ ~Approved(Outcome(Txn(r, NoOp, <<INCREMENT_SCAN, e>>)))

\* ---- C9 ---------------------------------------------------------------------
\* The step changes the status of s for e as register_event does: from NONE to
\* CONFIRMED, with one more approved register_event of s for e.
StatusRegistered(s, e) ==
    /\ Status(local, s, e) = NONE
    /\ Status(local', s, e) = CONFIRMED
    /\ history[REGISTER_EVENT][<<s, e>>] = 0
    /\ history'[REGISTER_EVENT][<<s, e>>] = 1

\* The step changes the status of s for e as confirm_attendance does: from
\* CONFIRMED to ATTENDED, with one more scan of e.
StatusConfirmed(s, e) ==
    /\ Status(local, s, e) = CONFIRMED
    /\ Status(local', s, e) = ATTENDED
    /\ UintField(global', e, SCAN_COUNT_KEY) = UintField(global, e, SCAN_COUNT_KEY) + 1
    /\ \E a \in ConfirmAttendanceArgs :
           /\ Commit(Outcome(Txn(s, NoOp, a))).approved
           /\ Commit(Outcome(Txn(s, NoOp, a))).local = local'

\* C9: the status of an identity for an event never goes back: no step takes
\* it from CONFIRMED to NONE or from ATTENDED to CONFIRMED or NONE, and the
\* only changes are NONE to CONFIRMED by register_event and CONFIRMED to
\* ATTENDED by confirm_attendance.
C9_StatusNeverRegresses ==
    [][\A s \in Senders, e \in EventIds :
          /\ Status(local', s, e) >= Status(local, s, e)
          /\ Status(local', s, e) # Status(local, s, e) =>
                 StatusRegistered(s, e) \/ StatusConfirmed(s, e)]_vars

\* An identity that has attended an event for which a refund was approved and
\* which is deactivated, and whose register_event is rejected.
C9_Witness ==
    \E e \in EventIds, s, r \in Senders :
        /\ Status(local, s, e) = ATTENDED
        /\ history[REFUND_REGISTRATION][<<r, e>>] >= 1
        /\ UintField(global, e, ACTIVE_KEY) = 0
        /\ \A a \in RegisterEventArgs : ~Approved(Outcome(Txn(s, NoOp, a)))
        /\ Approved(Outcome(Txn(s, NoOp, <<CONFIRM_ATTENDANCE, e>>)))

\* ---- C10 --------------------------------------------------------------------
\* C10: nft_minted is 1 only in states where the status is ATTENDED, and no
\* step takes it from 1 to another value.
C10_NftMintedOnlyAttended ==
    /\ [](\A s \in Senders, e \in EventIds :
             NftMinted(local, s, e) = 1 => Status(local, s, e) = ATTENDED)
    /\ [][\A s \in Senders, e \in EventIds :
             /\ NftMinted(local', s, e) = 1 => Status(local', s, e) = ATTENDED
             /\ NftMinted(local, s, e) = 1 => NftMinted(local', s, e) = 1]_vars

\* One identity has minted; another has registered only, and its mint_nft is
\* rejected.
C10_Witness ==
    \E e \in EventIds, s, r \in Senders :
        /\ NftMinted(local, s, e) = 1
        /\ history[MINT_NFT][<<s, e>>] >= 1
        /\ Status(local, r, e) = CONFIRMED
        /\ \A a \in MintNftArgs : ~Approved(Outcome(Txn(r, NoOp, a)))

\* ---- C11 --------------------------------------------------------------------
\* The field tags of an EventRecord.
EventTags ==
    {EVENT_NAME_KEY, CURRENT_URL_KEY, ACCESS_TYPE_KEY, EXPIRY_DATE_KEY, CREATED_AT_KEY,
     OWNER_KEY, SCAN_COUNT_KEY, ACTIVE_KEY, TICKET_PRICE_KEY, MAX_CAPACITY_KEY,
     REGISTERED_COUNT_KEY, NFT_ASSET_ID_KEY}

\* Every cell of the EventRecord of e is present in g.
RecordPresent(g, e) == \A t \in EventTags : event_key(e, t) \in DOMAIN g

\* C11: the owner of a created event is the identity whose create_event was
\* approved, and no step changes or removes the owner or removes a cell of the
\* EventRecord.
C11_OwnerImmutable ==
    /\ [](\A e \in EventIds :
             Created(global, e) =>
                 /\ RecordPresent(global, e)
                 /\ Owner(global, e) \in Senders
                 /\ history[CREATE_EVENT][<<Owner(global, e), e>>] = 1)
    /\ [][\A e \in EventIds :
             Created(global, e) =>
                 /\ Created(global', e)
                 /\ Owner(global', e) = Owner(global, e)
                 /\ RecordPresent(global', e)]_vars

\* A created event after its owner has updated the url, deactivated it and
\* refunded a registration of another identity, whose create_event is rejected.
C11_Witness ==
    \E e \in EventIds, s, r \in Senders :
        /\ s # r
        /\ Created(global, e)
        /\ Owner(global, e) = s
        /\ UintField(global, e, ACTIVE_KEY) = 0
        /\ history[REFUND_REGISTRATION][<<s, e>>] >= 1
        /\ Status(local, r, e) = ATTENDED
        /\ \A a \in CreateEventArgs : ~Approved(Outcome(Txn(r, NoOp, a)))

\* ---- C12 --------------------------------------------------------------------
\* The refund_registration calls with an event id, by the owner of the event.
OwnerRefunds ==
    {txn \in Calls(RefundRegistrationArgs) : NumArgs(txn) >= 2 /\ ByOwner(txn)}

\* What an approved refund_registration has written to the two counters.
RefundEffects(txn) ==
    LET c == Commit(Outcome(txn))
        e == EventOf(txn)
    IN  /\ UintField(c.global, e, REGISTERED_COUNT_KEY) + 1
               = UintField(global, e, REGISTERED_COUNT_KEY)
        /\ Get(c.global, TOTAL_REGISTRATIONS_KEY)[2] + 1
               = Get(global, TOTAL_REGISTRATIONS_KEY)[2]

\* C12 as stated: every refund_registration by the owner with 2 arguments is
\* approved and takes 1 from registered_count and 1 from total_registrations,
\* in every reachable state.
C12_OwnerRefundAlwaysSucceeds ==
    Initialized =>
        \A txn \in OwnerRefunds : Approved(Outcome(txn)) /\ RefundEffects(txn)

\* C12, amended: a refund_registration by the owner with 2 arguments is
\* approved if and only if registered_count and total_registrations are both
\* at least 1, and an approved one takes exactly 1 from each.
C12_OwnerRefundAboveZero ==
    Initialized =>
        \A txn \in OwnerRefunds :
            /\ Approved(Outcome(txn)) <=>
                   /\ UintField(global, EventOf(txn), REGISTERED_COUNT_KEY) >= 1
                   /\ Get(global, TOTAL_REGISTRATIONS_KEY)[2] >= 1
            /\ Approved(Outcome(txn)) => RefundEffects(txn)

\* After an approved refund the counters are back at 0 and the owner's next
\* refund_registration fails in the subtraction, before any write.
C12_Witness ==
    \E txn \in OwnerRefunds :
        /\ history[REFUND_REGISTRATION][<<txn.sender, EventOf(txn)>>] >= 1
        /\ UintField(global, EventOf(txn), REGISTERED_COUNT_KEY) = 0
        /\ Outcome(txn).status = "panic"
        /\ Outcome(txn).puts = 0

\* ---- C13 --------------------------------------------------------------------
\* C13: a refund_registration changes no RegistrationRecord and not
\* total_revenue, and an identity whose register_event for an event was
\* approved once has no further register_event for that event approved,
\* whatever refunds were made.
C13_RefundKeepsRegistrations ==
    /\ Initialized =>
           \A txn \in Calls(RefundRegistrationArgs) :
               /\ Commit(Outcome(txn)).local = local
               /\ Get(Commit(Outcome(txn)).global, TOTAL_REVENUE_KEY)
                      = Get(global, TOTAL_REVENUE_KEY)
    /\ \A s \in Senders, e \in EventIds :
           /\ history[REGISTER_EVENT][<<s, e>>] <= 1
           /\ history[REGISTER_EVENT][<<s, e>>] = 1 =>
                  \A a \in RegisterEventArgs :
                      EventOf(Txn(s, NoOp, a)) = e => ~Approved(Outcome(Txn(s, NoOp, a)))

\* The owner has refunded the only registration: the event is active with
\* registered_count 0 and room for one, the refunded identity is still
\* CONFIRMED with its amount in total_revenue and its register_event stops at
\* a guard, while that of an identity that never registered is approved.
C13_Witness ==
    \E e \in EventIds, s, r \in Senders :
        /\ history[REGISTER_EVENT][<<s, e>>] = 1
        /\ history[REGISTER_EVENT][<<r, e>>] = 0
        /\ history[REFUND_REGISTRATION][<<Owner(global, e), e>>] = 1
        /\ Status(local, s, e) = CONFIRMED
        /\ UintField(global, e, REGISTERED_COUNT_KEY) = 0
        /\ UintField(global, e, MAX_CAPACITY_KEY) = 1
        /\ Get(global, TOTAL_REVENUE_KEY)[2] = 1
        /\ Outcome(Txn(s, NoOp, <<REGISTER_EVENT, e, OnePadded, One>>)).status = "assert"
        /\ Approved(Outcome(Txn(r, NoOp, <<REGISTER_EVENT, e, OnePadded, One>>)))

\* ---- C14 --------------------------------------------------------------------
\* The argument lists a call may carry: those of the nine operations, complete
\* and with the last argument left out, an unknown selector, and none.
AnyArgs == OperationArgs \cup Truncated(OperationArgs) \cup UnknownArgs

\* C14: once the application exists, every UpdateApplication call and every
\* DeleteApplication call is rejected, by Return(0) and without a write,
\* whoever sends it and whatever arguments it carries.
C14_UpdateDeleteRejected ==
    [](Initialized =>
          \A s \in Senders, oc \in {UpdateApplication, DeleteApplication}, a \in AnyArgs :
              \A r \in {Outcome(Txn(s, oc, a))} :
                  /\ r.status = "reject"
                  /\ r.puts = 0
                  /\ Commit(r).global = global
                  /\ Commit(r).local = local)

\* An event whose owner could deactivate it with an ordinary call: the same
\* arguments sent as an update or a delete are rejected.
C14_Witness ==
    \E e \in EventIds, s \in Senders :
        /\ Created(global, e)
        /\ Owner(global, e) = s
        /\ Approved(Outcome(Txn(s, NoOp, <<DEACTIVATE_EVENT, e>>)))
        /\ Outcome(Txn(s, UpdateApplication, <<DEACTIVATE_EVENT, e>>)).status = "reject"
        /\ Outcome(Txn(s, DeleteApplication, <<DEACTIVATE_EVENT, e>>)).status = "reject"

\* ---- C15 --------------------------------------------------------------------
\* C15: once the application exists, every OptIn call and every CloseOut call
\* is approved without a write to the global or to any local partition,
\* whatever arguments it carries, also the arguments of an operation whose
\* guards hold.
C15_OptInCloseOutWriteNothing ==
    [](Initialized =>
          \A s \in Senders, oc \in {OptIn, CloseOut}, a \in AnyArgs :
              \A r \in {Outcome(Txn(s, oc, a))} :
                  /\ r.status = "approve"
                  /\ r.puts = 0
                  /\ r.g = global
                  /\ r.l = local)

\* A register_event that is approved and writes as an ordinary call, and is
\* approved without a write as an opt-in and as a close-out.
C15_Witness ==
    \E s \in Senders, a \in RegisterEventArgs :
        /\ Approved(Outcome(Txn(s, NoOp, a)))
        /\ Outcome(Txn(s, NoOp, a)).puts = 8
        /\ Approved(Outcome(Txn(s, OptIn, a)))
        /\ Outcome(Txn(s, OptIn, a)).puts = 0
        /\ Approved(Outcome(Txn(s, CloseOut, a)))
        /\ Outcome(Txn(s, CloseOut, a)).l = local

\* ---- C16 --------------------------------------------------------------------
\* The global partition as initialization leaves it.
InitialAggregates ==
    [k \in {EVENT_COUNT_KEY, VERSION_KEY, TOTAL_REGISTRATIONS_KEY, TOTAL_REVENUE_KEY} |->
        IF k = VERSION_KEY THEN Bytes("2.0.0") ELSE Uint(0)]

Aggregate(g, key) == Get(g, key)[2]

\* The step that creates the application leaves the global partition as
\* initialization writes it.
InitializingStep ==
    (~Initialized /\ application_id' # 0) =>
        (global' = InitialAggregates /\ local' = local)

\* A step of the created application keeps it created and does not reset an
\* aggregate.
LaterStep ==
    Initialized =>
        /\ application_id' # 0
        /\ Get(global', VERSION_KEY) = Get(global, VERSION_KEY)
        /\ Aggregate(global', EVENT_COUNT_KEY) >= Aggregate(global, EVENT_COUNT_KEY)
        /\ Aggregate(global', TOTAL_REVENUE_KEY) >= Aggregate(global, TOTAL_REVENUE_KEY)
        /\ Aggregate(global', TOTAL_REGISTRATIONS_KEY) + 1
               >= Aggregate(global, TOTAL_REGISTRATIONS_KEY)
        /\ Aggregate(global, TOTAL_REGISTRATIONS_KEY) + 1
               >= Aggregate(global', TOTAL_REGISTRATIONS_KEY)

\* C16: initialization runs on the first call and on no other: before it the
\* store is empty and every call runs it; the step that creates the
\* application leaves exactly event_count, total_registrations and
\* total_revenue at 0 and the version at "2.0.0"; afterwards no call runs it
\* again, the version stays "2.0.0", event_count and total_revenue never
\* decrease and total_registrations changes by at most 1 in a step.
C16_InitializedOnce ==
    /\ [](~Initialized => global = EmptyStore)
    /\ [](Initialized => Get(global, VERSION_KEY) = Bytes("2.0.0"))
    /\ [](\A o \in {on_create(Start(global, local))} :
             \A s \in Senders, oc \in OnCompletions, a \in AnyArgs :
                 Initialized <=> Outcome(Txn(s, oc, a)) # o)
    /\ [][InitializingStep /\ LaterStep]_vars

\* A state long after initialization: an event was created, two identities
\* registered and one registration was refunded, and the aggregates carry it.
C16_Witness ==
    /\ Initialized
    /\ Get(global, VERSION_KEY) = Bytes("2.0.0")
    /\ Aggregate(global, EVENT_COUNT_KEY) = 1
    /\ Aggregate(global, TOTAL_REGISTRATIONS_KEY) = 1
    /\ Aggregate(global, TOTAL_REVENUE_KEY) = 2
    /\ \E e \in EventIds, s \in Senders : history[REFUND_REGISTRATION][<<s, e>>] = 1

\* ---- C17 --------------------------------------------------------------------
\* The least number of arguments each operation asserts, the selector and the
\* event id included.
MinArgs ==
    [sel \in {CREATE_EVENT, REGISTER_EVENT, CONFIRM_ATTENDANCE, MINT_NFT, UPDATE_URL,
              UPDATE_TICKET_PRICE, DEACTIVATE_EVENT, INCREMENT_SCAN, REFUND_REGISTRATION} |->
        IF sel = CREATE_EVENT THEN 8
        ELSE IF sel = REGISTER_EVENT THEN 4
        ELSE IF sel \in {MINT_NFT, UPDATE_URL, UPDATE_TICKET_PRICE} THEN 3
        ELSE 2]

\* The minima with 3 for confirm_attendance.
MinArgsThreeToConfirm == [MinArgs EXCEPT ![CONFIRM_ATTENDANCE] = 3]

\* The ordinary calls of the nine operations with every shorter argument list
\* that still carries the selector.
Prefixes(S) == UNION {{SubSeq(a, 1, n) : n \in 1..Len(a)} : a \in S}
ShortenedCalls == {Txn(s, NoOp, a) : s \in Senders, a \in Prefixes(OperationArgs)}

\* Every ordinary call with fewer arguments than min gives its selector stops
\* at the first Assert, with no write.
TooFewArgsAbort(min) ==
    Initialized =>
        \A txn \in ShortenedCalls :
            NumArgs(txn) < min[Selector(txn)] =>
                \A r \in {Outcome(txn)} :
                    /\ r.status = "assert"
                    /\ r.puts = 0
                    /\ Commit(r).global = global
                    /\ Commit(r).local = local

\* C17 as stated: the minima are 8 for create_event, 4 for register_event, 3
\* for confirm_attendance, mint_nft, update_url and update_ticket_price, and 2
\* for deactivate_event, increment_scan and refund_registration.
C17_TooFewArgsAbortThreeToConfirm == [](TooFewArgsAbort(MinArgsThreeToConfirm))

\* C17, amended: the same with 2 for confirm_attendance.
C17_TooFewArgsAbort == [](TooFewArgsAbort(MinArgs))

\* An identity that has attended: its mint_nft with three arguments is
\* approved and the one with two stops at the Assert, while its
\* confirm_attendance with two arguments is approved.
C17_Witness ==
    \E e \in EventIds, s \in Senders :
        /\ Status(local, s, e) = ATTENDED
        /\ Approved(Outcome(Txn(s, NoOp, <<MINT_NFT, e, One>>)))
        /\ Outcome(Txn(s, NoOp, <<MINT_NFT, e>>)).status = "assert"
        /\ Approved(Outcome(Txn(s, NoOp, <<CONFIRM_ATTENDANCE, e>>)))
        /\ Outcome(Txn(s, NoOp, <<CONFIRM_ATTENDANCE>>)).status = "assert"

\* ---- C18 ----------------------------------------------------------------------
\* The operations that write the caller's registration record, and the others.
LocalWriters == {REGISTER_EVENT, CONFIRM_ATTENDANCE, MINT_NFT}

\* The call writes no local record of an account other than its sender: the
\* working copy of every other account stays as it was, whether the call is
\* approved or not.
OthersUntouched(txn, r) ==
    \A y \in Senders \ {txn.sender} : r.l[y] = local[y]

\* An ordinary call of one of the nine operations that is not register_event,
\* confirm_attendance or mint_nft.
WritesNoLocal(txn) ==
    /\ txn.on_completion = NoOp
    /\ NumArgs(txn) > 0
    /\ Selector(txn) \notin LocalWriters

\* C18: a call issued by identity X never changes a registration record of
\* another identity Y: in every reachable state, for every call (creation,
\* lifecycle and ordinary calls, complete or short of arguments), the local
\* store of every account other than the sender is left as it was, and a call
\* of an owner-gated or public operation leaves the whole local store as it
\* was; a step of the program changes the local store of one identity at most.
C18_OnlyOwnRecordWritten ==
    /\ [](\A txn \in AllCalls \cup ShortenedCalls :
            \A r \in {Outcome(txn)} :
                /\ OthersUntouched(txn, r)
                /\ WritesNoLocal(txn) => r.l = local)
    /\ [][\A x, y \in Senders :
            x # y => local'[x] = local[x] \/ local'[y] = local[y]]_vars

\* One identity has attended and minted while the other has only registered:
\* the other's confirm_attendance is approved and changes its own record, and
\* the owner's refund_registration is approved and changes no local record.
C18_Witness ==
    \E e \in EventIds, x \in Senders, y \in Senders :
        /\ x # y
        /\ Status(local, x, e) = ATTENDED
        /\ NftMinted(local, x, e) = 1
        /\ Status(local, y, e) = CONFIRMED
        /\ \A r \in {Outcome(Txn(y, NoOp, <<CONFIRM_ATTENDANCE, e>>))} :
               Approved(r) /\ r.l[y] # local[y] /\ r.l[x] = local[x]
        /\ Created(global, e)
        /\ \A r \in {Outcome(Txn(Owner(global, e), NoOp, <<REFUND_REGISTRATION, e>>))} :
               Approved(r) /\ r.l = local

\* ---- C19 ----------------------------------------------------------------------
\* The field tags of a RegistrationRecord and the keys of the global aggregates.
LocalTags == {REG_STATUS_KEY, REG_DATE_KEY, REG_TIER_KEY, REG_AMOUNT_KEY, REG_NFT_KEY}
AggregateKeys == DOMAIN InitialAggregates

\* Event ids chosen against the delimiter: the empty id, ids made of colons,
\* ids that end in colons, ids that are a tag or an aggregate key, and every
\* key of these ids taken as an id again.
CodecBaseIds ==
    {"", ":", "::", ":::", "ev1", "ev1:", "ev1::", "::ev1", "ev", "1", "owner", "::owner",
     "event_count", "total_revenue"}
CodecEventIds ==
    CodecBaseIds
    \cup {event_key(b, t) : b \in CodecBaseIds, t \in EventTags \cup LocalTags}
    \cup {b \o t : b \in CodecBaseIds, t \in {"owner", ":owner", "::", "::owner::"}}

\* The keys of event e with the field tags.
KeysOf(e, tags) == {event_key(e, t) : t \in tags}

\* event_key is injective on ids x tags: as many keys as pairs.
InjectiveOn(ids, tags) ==
    Cardinality({event_key(e, t) : e \in ids, t \in tags})
        = Cardinality(ids) * Cardinality(tags)

\* No two distinct (event_id, field_tag) pairs yield the same key within a
\* partition, and no event key is the key of a global aggregate.
CodecInjective ==
    /\ InjectiveOn(CodecEventIds, EventTags)
    /\ InjectiveOn(CodecEventIds, LocalTags)
    /\ \A e \in CodecEventIds : KeysOf(e, EventTags \cup LocalTags) \cap AggregateKeys = {}

\* The two events the specification of the codec stores: the empty id and the
\* id that is the owner key of the empty id.
CodecStoredIds == {"", "::owner"}

\* The calls of the nine operations on event e.
CodecArgs(e) ==
    {<<CREATE_EVENT, e, "Conf", "https://x", "public", Zero, One, Zero>>,
     <<REGISTER_EVENT, e, OnePadded, One>>,
     <<CONFIRM_ATTENDANCE, e>>,
     <<MINT_NFT, e, One>>,
     <<UPDATE_URL, e, "https://y">>,
     <<UPDATE_TICKET_PRICE, e, One>>,
     <<DEACTIVATE_EVENT, e>>,
     <<INCREMENT_SCAN, e>>,
     <<REFUND_REGISTRATION, e>>}
CodecCalls == {Txn(s, NoOp, a) : s \in Senders, a \in UNION {CodecArgs(e) : e \in CodecStoredIds}}

\* The steps of the specification of the codec: initialization and the calls
\* that create, fill and close the records of the two events.
CodecCreateEvent ==
    /\ application_id # 0
    /\ \E txn \in CodecCalls : Selector(txn) = CREATE_EVENT /\ Submit(txn)

CodecRegisterEvent ==
    /\ application_id # 0
    /\ \E txn \in CodecCalls : Selector(txn) = REGISTER_EVENT /\ Submit(txn)

CodecConfirmAttendance ==
    /\ application_id # 0
    /\ \E txn \in CodecCalls : Selector(txn) = CONFIRM_ATTENDANCE /\ Submit(txn)

CodecDeactivateEvent ==
    /\ application_id # 0
    /\ \E txn \in CodecCalls : Selector(txn) = DEACTIVATE_EVENT /\ Submit(txn)

CodecNext ==
    \/ OnCreate
    \/ CodecCreateEvent
    \/ CodecRegisterEvent
    \/ CodecConfirmAttendance
    \/ CodecDeactivateEvent

\* The program on events whose ids contain the delimiter or are empty.
CodecSpec == Init /\ [][CodecNext]_vars

\* The keys whose cell differs between two stores.
Changed(before, after) ==
    {k \in DOMAIN before \cup DOMAIN after :
        ~(k \in DOMAIN before /\ k \in DOMAIN after /\ before[k] = after[k])}

\* The store cut down to the keys.
Restrict(store, keys) == [k \in DOMAIN store \cap keys |-> store[k]]

\* The call writes cells of its own event and aggregates only.
WritesOwnEvent(txn, r) ==
    /\ Changed(global, r.g) \subseteq KeysOf(EventOf(txn), EventTags) \cup AggregateKeys
    /\ \A s \in Senders : Changed(local[s], r.l[s]) \subseteq KeysOf(EventOf(txn), LocalTags)

\* The call reads cells of its own event and aggregates only: on the store
\* without the cells of every other event it ends the same way with the same
\* writes.
ReadsOwnEvent(txn, r) ==
    \A q \in {dynamic_qr_contract(
                application_id,
                Restrict(global, KeysOf(EventOf(txn), EventTags) \cup AggregateKeys),
                [s \in Senders |-> Restrict(local[s], KeysOf(EventOf(txn), LocalTags))],
                txn, latest_timestamp)} :
        /\ q.status = r.status
        /\ q.puts = r.puts
        /\ \A k \in KeysOf(EventOf(txn), EventTags) \cup AggregateKeys : Get(q.g, k) = Get(r.g, k)
        /\ \A s \in Senders :
               \A k \in KeysOf(EventOf(txn), LocalTags) : Get(q.l[s], k) = Get(r.l[s], k)

\* C19: the Key Codec is injective on the keys the program uses: over event
\* ids that are empty, contain the delimiter or are themselves keys, and the
\* fixed field tags, distinct (event_id, field_tag) pairs have distinct keys in
\* each partition and no event key is an aggregate key (a statement about
\* event_key alone, the same in every state, evaluated before the application
\* exists); and in every reachable state a
\* call of any of the nine operations on one event writes cells of that event
\* and aggregates only and ends the same way whatever the cells of the other
\* event hold.
C19_CodecInjective ==
    /\ [](application_id = 0 => CodecInjective)
    /\ [](Initialized =>
            \A txn \in CodecCalls :
                \A r \in {Outcome(txn)} : WritesOwnEvent(txn, r) /\ ReadsOwnEvent(txn, r))

\* Both events exist with different owners, one deactivated and the other
\* active with a registration: the register_event on the active one is
\* approved for the identity not yet registered and the one on the
\* deactivated event stops at the guard.
C19_Witness ==
    \E e \in CodecStoredIds, f \in CodecStoredIds, s \in Senders :
        /\ e # f
        /\ Created(global, e) /\ Created(global, f)
        /\ Owner(global, e) # Owner(global, f)
        /\ UintField(global, e, ACTIVE_KEY) = 1
        /\ UintField(global, f, ACTIVE_KEY) = 0
        /\ UintField(global, e, REGISTERED_COUNT_KEY) = 1
        /\ Approved(Outcome(Txn(s, NoOp, <<REGISTER_EVENT, e, OnePadded, One>>)))
        /\ Outcome(Txn(s, NoOp, <<REGISTER_EVENT, f, OnePadded, One>>)).status = "assert"

\* ---- C20 ----------------------------------------------------------------------
\* The nine operation selectors.
Selectors == DOMAIN MinArgs

\* The operation of selector sel on txn.
Operation(sel, st, txn, now) ==
    CASE sel = CREATE_EVENT -> create_event_logic(st, txn, now)
      [] sel = UPDATE_URL -> update_url_logic(st, txn)
      [] sel = REGISTER_EVENT -> register_event_logic(st, txn, now)
      [] sel = CONFIRM_ATTENDANCE -> confirm_attendance_logic(st, txn)
      [] sel = MINT_NFT -> mint_nft_logic(st, txn)
      [] sel = DEACTIVATE_EVENT -> deactivate_event_logic(st, txn)
      [] sel = INCREMENT_SCAN -> increment_scan_logic(st, txn, now)
      [] sel = UPDATE_TICKET_PRICE -> update_ticket_price_logic(st, txn)
      [] sel = REFUND_REGISTRATION -> refund_registration_logic(st, txn)

\* Selectors that are none of the nine: another name, the empty string, and
\* names that differ from one of the nine in case or by a trailing space.
OtherSelectors == {"get_event", "", "CREATE_EVENT", "create_event ", "refund"}

\* The call matches no branch: it ends without approval where the selector is
\* read or after the last branch, with no write and the store as it was.
Unmatched(txn) ==
    \A r \in {Outcome(txn)} :
        /\ r.status \in {"panic", "nomatch"}
        /\ r.puts = 0
        /\ Commit(r).global = global /\ Commit(r).local = local

\* Ordinary calls under one of the nine selectors, with complete arguments
\* and with the last argument left out.
MatchedCalls == Calls(OperationArgs)

\* C20: the dispatcher maps each ordinary call to exactly one branch or
\* aborts: the nine selectors are distinct; once the application exists, an
\* ordinary call with no arguments or with a first argument that is none of
\* the nine selectors ends without approval and without a write, the store as
\* it was; and an ordinary call under one of the nine selectors ends as that
\* selector's operation ends on the store as it was.
C20_DispatchExactlyOne ==
    [](Initialized =>
          /\ Cardinality(Selectors) = 9
          /\ \A s \in Senders :
                 /\ \A a \in UnknownArgs : Unmatched(Txn(s, NoOp, a))
                 /\ \A x \in OtherSelectors, e \in EventIds :
                        \A a \in CodecArgs(e) : Unmatched(Txn(s, NoOp, <<x>> \o Tail(a)))
          /\ \A txn \in MatchedCalls :
                 /\ Selector(txn) \in Selectors
                 /\ Outcome(txn)
                      = Operation(Selector(txn), Start(global, local), txn, latest_timestamp))

\* An event with a registration: the owner's refund_registration is approved
\* and writes, the same arguments under another selector match no branch, and
\* a call without arguments ends in the read of argument 0.
C20_Witness ==
    \E e \in EventIds :
        /\ Initialized
        /\ Created(global, e)
        /\ UintField(global, e, REGISTERED_COUNT_KEY) > 0
        /\ \A r \in {Outcome(Txn(Owner(global, e), NoOp, <<REFUND_REGISTRATION, e>>))} :
               Approved(r) /\ r.puts = 2
        /\ Outcome(Txn(Owner(global, e), NoOp, <<"refund", e>>)).status = "nomatch"
        /\ Outcome(Txn(Owner(global, e), NoOp, << >>)).status = "panic"

\* ---- C21 ----------------------------------------------------------------------
\* The owner-gated updates, the field each writes and the value it writes.
UpdateSelectors == {UPDATE_URL, UPDATE_TICKET_PRICE, DEACTIVATE_EVENT}
UpdateArgs ==
    UpdateUrlArgs \cup {<<UPDATE_URL, e, "https://y">> : e \in EventIds}
    \cup UpdateTicketPriceArgs \cup DeactivateEventArgs
UpdatedTag(sel) ==
    CASE sel = UPDATE_URL -> CURRENT_URL_KEY
      [] sel = UPDATE_TICKET_PRICE -> TICKET_PRICE_KEY
      [] sel = DEACTIVATE_EVENT -> ACTIVE_KEY
UpdatedValue(txn) ==
    CASE Selector(txn) = UPDATE_URL -> Bytes(Arg(txn, 2))
      [] Selector(txn) = UPDATE_TICKET_PRICE -> Btoi(Arg(txn, 2))
      [] Selector(txn) = DEACTIVATE_EVENT -> Uint(0)

\* The approved update wrote its one field, with the value supplied, and
\* nothing else in either partition.
UpdateEffects(txn, r) ==
    /\ r.puts = 1
    /\ r.l = local
    /\ Changed(global, r.g) \subseteq {event_key(EventOf(txn), UpdatedTag(Selector(txn)))}
    /\ Get(r.g, event_key(EventOf(txn), UpdatedTag(Selector(txn)))) = UpdatedValue(txn)

\* The price argument of an update_ticket_price decodes: it is no longer than
\* a uint.
UpdateArgsDecode(txn) ==
    Selector(txn) = UPDATE_TICKET_PRICE => Len(Arg(txn, 2)) <= UintBytes

\* Every approved update has the effects of its operation, and every update
\* that meets the condition on its caller and arguments is approved.
OwnerUpdates(Succeeds(_)) ==
    Initialized =>
        \A txn \in Calls(UpdateArgs) :
            \A r \in {Outcome(txn)} :
                /\ Approved(r) => ByOwner(txn) /\ UpdateEffects(txn, r)
                /\ (NumArgs(txn) >= MinArgs[Selector(txn)] /\ Succeeds(txn)) => Approved(r)

\* C21 as stated: a successful update_url changes only the event's url, a
\* successful update_ticket_price only its ticket price and a successful
\* deactivate_event only its active flag, to 0, everything else in the store
\* as it was; and each is approved whenever the caller is the owner, whatever
\* the state of the event.
C21_OwnerUpdateAlwaysSucceeds ==
    [](OwnerUpdates(LAMBDA txn : ByOwner(txn)))

\* C21, amended: the same, an update_ticket_price being approved for the owner
\* when its price argument decodes.
C21_OwnerUpdateOneField ==
    [](OwnerUpdates(LAMBDA txn : ByOwner(txn) /\ UpdateArgsDecode(txn)))

\* An event that is deactivated and past its expiry: the owner's update_url,
\* update_ticket_price and deactivate_event are approved, and the
\* update_ticket_price with a price one byte too long is not.
C21_Witness ==
    \E e \in EventIds :
        /\ Created(global, e)
        /\ UintField(global, e, ACTIVE_KEY) = 0
        /\ UintField(global, e, EXPIRY_DATE_KEY) # 0
        /\ UintField(global, e, EXPIRY_DATE_KEY) <= latest_timestamp
        /\ \A r \in {Outcome(Txn(Owner(global, e), NoOp, <<UPDATE_URL, e, "https://y">>))} :
               Approved(r) /\ Changed(global, r.g) = {event_key(e, CURRENT_URL_KEY)}
        /\ Approved(Outcome(Txn(Owner(global, e), NoOp, <<DEACTIVATE_EVENT, e>>)))
        /\ Approved(Outcome(Txn(Owner(global, e), NoOp, <<UPDATE_TICKET_PRICE, e, One>>)))
        /\ Outcome(Txn(Owner(global, e), NoOp, <<UPDATE_TICKET_PRICE, e, TooLong>>)).status
             = "panic"

\* ---- C22 ----------------------------------------------------------------------
\* A step keeps what makes a created event inactive: the event stays created,
\* its expiry is what it was, a cleared active flag stays cleared, and an
\* event that is not active before the step is not active after it.  The
\* timestamp of the model never decreases (Tick).
InactiveStays ==
    \A e \in EventIds :
        Created(global, e) =>
            /\ Created(global', e)
            /\ UintField(global', e, EXPIRY_DATE_KEY) = UintField(global, e, EXPIRY_DATE_KEY)
            /\ UintField(global, e, ACTIVE_KEY) = 0 => UintField(global', e, ACTIVE_KEY) = 0
            /\ latest_timestamp' >= latest_timestamp
            /\ ~IsActive(e) => ~IsActive(e)'

\* On a created event that is not active every register_event and every
\* increment_scan is refused and writes nothing.
InactiveRefuses ==
    \A e \in EventIds :
        (Created(global, e) /\ ~IsActive(e)) =>
            \A txn \in Calls(RegisterEventArgs \cup IncrementScanArgs) :
                \A r \in {Outcome(txn)} :
                    /\ ~Approved(r)
                    /\ r.puts = 0
                    /\ Commit(r).global = global /\ Commit(r).local = local

\* C22: once a created event is not active, because it was deactivated or
\* its non-zero expiry is at or before the timestamp, it is not active in any
\* later state: no step sets the active flag again or changes the expiry, and
\* in every such state register_event and increment_scan on it abort.
C22_InactiveForEver ==
    /\ [](Initialized => InactiveRefuses)
    /\ [][InactiveStays]_vars

\* An event that took a registration while active and has expired since,
\* its active flag still set: the register_event of an identity that has not
\* registered and the increment_scan are refused.
C22_Witness ==
    \E e \in EventIds, s \in Senders :
        /\ Created(global, e)
        /\ UintField(global, e, ACTIVE_KEY) = 1
        /\ UintField(global, e, EXPIRY_DATE_KEY) # 0
        /\ UintField(global, e, EXPIRY_DATE_KEY) <= latest_timestamp
        /\ UintField(global, e, REGISTERED_COUNT_KEY) = 1
        /\ UintField(global, e, MAX_CAPACITY_KEY) = 0
        /\ Status(local, s, e) = NONE
        /\ Outcome(Txn(s, NoOp, <<REGISTER_EVENT, e, OnePadded, One>>)).status = "assert"
        /\ Outcome(Txn(s, NoOp, <<INCREMENT_SCAN, e>>)).status = "assert"

\* ---- C23 ----------------------------------------------------------------------
\* The specification of the counters: two events, created by either identity
\* with no expiry and no capacity limit, registrations with payments of 0, 1
\* and the largest uint, and refunds.
CounterEventIds == {"ev1", "ev2"}
CounterAmounts == {Zero, One, AllOnes}

CountersCreateEvent ==
    /\ application_id # 0
    /\ \E s \in Senders, e \in CounterEventIds :
           Submit(Txn(s, NoOp, <<CREATE_EVENT, e, "Conf", "https://x", "public", Zero, One, Zero>>))

CountersRegisterEvent ==
    /\ application_id # 0
    /\ \E s \in Senders, e \in CounterEventIds, a \in CounterAmounts :
           Submit(Txn(s, NoOp, <<REGISTER_EVENT, e, OnePadded, a>>))

CountersRefundRegistration ==
    /\ application_id # 0
    /\ \E s \in Senders, e \in CounterEventIds :
           Submit(Txn(s, NoOp, <<REFUND_REGISTRATION, e>>))

CountersNext ==
    \/ OnCreate
    \/ CountersCreateEvent
    \/ CountersRegisterEvent
    \/ CountersRefundRegistration

CountersSpec == Init /\ [][CountersNext]_vars

\* The sum of the values of a function of numbers.
RECURSIVE Sum(_)
Sum(f) ==
    IF DOMAIN f = {} THEN 0
    ELSE LET x == CHOOSE y \in DOMAIN f : TRUE
         IN  f[x] + Sum([y \in DOMAIN f \ {x} |-> f[y]])

\* registered_count of each event, 0 for an event not created.
RegisteredCounts(g) ==
    [e \in CounterEventIds |-> UintField(g, e, REGISTERED_COUNT_KEY)]

\* total_registrations is the sum of registered_count over the events, and
\* the counters are uints.
CountersAgree ==
    /\ Aggregate(global, TOTAL_REGISTRATIONS_KEY) = Sum(RegisteredCounts(global))
    /\ Aggregate(global, TOTAL_REGISTRATIONS_KEY) \in 0..MaxUint
    /\ \A e \in CounterEventIds : RegisteredCounts(global)[e] \in 0..MaxUint

\* A refund_registration on an event whose registered_count is 0 fails in the
\* subtraction, with no write.
RefundAtZeroAborts ==
    \A s \in Senders, e \in CounterEventIds :
        (Created(global, e) /\ Owner(global, e) = s /\ RegisteredCounts(global)[e] = 0) =>
            \A r \in {Outcome(Txn(s, NoOp, <<REFUND_REGISTRATION, e>>))} :
                r.status = "panic" /\ Commit(r).global = global /\ Commit(r).local = local

\* A step that lowers a counter lowers it by 1, from a value above 0.
CountersStepDown ==
    /\ \A e \in CounterEventIds :
           RegisteredCounts(global')[e] < RegisteredCounts(global)[e] =>
               RegisteredCounts(global')[e] = RegisteredCounts(global)[e] - 1
    /\ Aggregate(global', TOTAL_REGISTRATIONS_KEY) < Aggregate(global, TOTAL_REGISTRATIONS_KEY) =>
           Aggregate(global', TOTAL_REGISTRATIONS_KEY)
               = Aggregate(global, TOTAL_REGISTRATIONS_KEY) - 1

\* C23: in every reachable state after initialization total_registrations
\* equals the sum of registered_count over the created events and both are
\* uints; no counter goes below zero: a refund_registration at
\* registered_count 0 aborts in the subtraction, and a step that lowers a
\* counter lowers it by exactly 1.
C23_TotalRegistrationsIsSum ==
    /\ [](Initialized => CountersAgree /\ RefundAtZeroAborts)
    /\ [][CountersStepDown]_vars

\* Two created events, one with a registration and one with none after a
\* refund: total_registrations is 1, and the owner's refund_registration on
\* the event with none fails while the one on the other is approved.
C23_Witness ==
    \E e \in CounterEventIds, f \in CounterEventIds :
        /\ e # f
        /\ Created(global, e) /\ Created(global, f)
        /\ RegisteredCounts(global)[e] = 1
        /\ RegisteredCounts(global)[f] = 0
        /\ \E s \in Senders : Status(local, s, f) = CONFIRMED
        /\ Aggregate(global, TOTAL_REGISTRATIONS_KEY) = 1
        /\ Outcome(Txn(Owner(global, f), NoOp, <<REFUND_REGISTRATION, f>>)).status = "panic"
        /\ Approved(Outcome(Txn(Owner(global, e), NoOp, <<REFUND_REGISTRATION, e>>)))

\* ---- C24 ----------------------------------------------------------------------
\* payment_amount of each registration record, 0 where there is none.
PaymentAmounts(l) ==
    [p \in Senders \X CounterEventIds |-> RegField(l, p[1], p[2], REG_AMOUNT_KEY)]

\* total_revenue is the sum of payment_amount over the registration records.
RevenueAgrees ==
    /\ Aggregate(global, TOTAL_REVENUE_KEY) = Sum(PaymentAmounts(local))
    /\ Aggregate(global, TOTAL_REVENUE_KEY) \in 0..MaxUint

\* An approved refund_registration leaves total_revenue and every
\* payment_amount as they were.
RefundKeepsRevenue ==
    \A s \in Senders, e \in CounterEventIds :
        \A r \in {Outcome(Txn(s, NoOp, <<REFUND_REGISTRATION, e>>))} :
            Approved(r) =>
                /\ Aggregate(r.g, TOTAL_REVENUE_KEY) = Aggregate(global, TOTAL_REVENUE_KEY)
                /\ r.l = local

\* C24: in every reachable state after initialization total_revenue equals the
\* sum of payment_amount over the registration records of all identities and
\* events (a registration whose payment would take the total above the
\* largest uint aborts); no step lowers total_revenue, and an approved
\* refund_registration leaves it as it was.
C24_TotalRevenueIsSum ==
    /\ [](Initialized => RevenueAgrees /\ RefundKeepsRevenue)
    /\ [][Aggregate(global', TOTAL_REVENUE_KEY) >= Aggregate(global, TOTAL_REVENUE_KEY)]_vars

\* Two identities have paid 1 each for the same event and one registration was
\* refunded: total_revenue is still 2, a further refund is approved, and a
\* registration for the other event paying the largest uint fails in the
\* addition.
C24_Witness ==
    \E e \in CounterEventIds, f \in CounterEventIds, s \in Senders :
        /\ e # f
        /\ Created(global, e) /\ Created(global, f)
        /\ \A x \in Senders : PaymentAmounts(local)[<<x, e>>] = 1
        /\ RegisteredCounts(global)[e] = 1
        /\ Aggregate(global, TOTAL_REVENUE_KEY) = 2
        /\ Approved(Outcome(Txn(Owner(global, e), NoOp, <<REFUND_REGISTRATION, e>>)))
        /\ Status(local, s, f) = NONE
        /\ Outcome(Txn(s, NoOp, <<REGISTER_EVENT, f, OnePadded, AllOnes>>)).status = "panic"

\* ---- C25 ----------------------------------------------------------------------
\* The identities registered for e, and the approved refund_registration calls
\* on e (history counts them up to 2 for each caller).
RegisteredIdentities(l, e) == {s \in Senders : Status(l, s, e) # NONE}
Refunds(h, e) == Sum([s \in Senders |-> h[REFUND_REGISTRATION][<<s, e>>]])

\* registered_count of e is the number of registered identities less the
\* refunds.
CountIsRegisteredLessRefunds ==
    \A e \in EventIds :
        Created(global, e) =>
            /\ UintField(global, e, REGISTERED_COUNT_KEY)
                 = Cardinality(RegisteredIdentities(local, e)) - Refunds(history, e)
            /\ UintField(global, e, REGISTERED_COUNT_KEY)
                 <= Cardinality(RegisteredIdentities(local, e))
            /\ Refunds(history, e) = 0 =>
                   UintField(global, e, REGISTERED_COUNT_KEY)
                     = Cardinality(RegisteredIdentities(local, e))

\* A step changes registered_count by the identities it registers less the
\* refund it records; a refund beyond those history can count would break
\* this.
CountStep ==
    \A e \in EventIds :
        UintField(global', e, REGISTERED_COUNT_KEY) - UintField(global, e, REGISTERED_COUNT_KEY)
          = (Cardinality(RegisteredIdentities(local', e))
               - Cardinality(RegisteredIdentities(local, e)))
            - (Refunds(history', e) - Refunds(history, e))

\* C25: for every created event registered_count equals the number of
\* identities whose status for the event is not NONE less the number of
\* approved refund_registration calls on it: it never exceeds the number of
\* registered identities and equals it when no refund was approved; every
\* step changes it by the registrations less the refunds of that step.
C25_RegisteredCountBalance ==
    /\ [](Initialized => CountIsRegisteredLessRefunds)
    /\ [][CountStep]_vars

\* Both identities are registered for an event and one refund was approved:
\* registered_count is 1.
C25_Witness ==
    \E e \in EventIds :
        /\ Created(global, e)
        /\ RegisteredIdentities(local, e) = Senders
        /\ Refunds(history, e) = 1
        /\ UintField(global, e, REGISTERED_COUNT_KEY) = 1

\* ---- C26 ----------------------------------------------------------------------
\* The storage schema deploy_application declares for the application.
global_schema == [num_uints |-> 4, num_byte_slices |-> 0]
local_schema == [num_uints |-> 5, num_byte_slices |-> 0]

\* The keys of a partition that hold a uint and those that hold a byte slice.
UintKeys(store) == {k \in DOMAIN store : IsUint(store[k])}
ByteSliceKeys(store) == {k \in DOMAIN store : IsBytes(store[k])}

\* The schema has a slot for every key of the partition.
Admits(schema, store) ==
    /\ Cardinality(UintKeys(store)) <= schema.num_uints
    /\ Cardinality(ByteSliceKeys(store)) <= schema.num_byte_slices

\* C26: the declared schema admits every write of the approved calls: in
\* every reachable state the global partition holds at most 4 uint keys and no
\* byte-slice key, and the local partition of every identity at most 5 uint
\* keys and no byte-slice key.
C26_SchemaAdmitsWrites ==
    /\ Admits(global_schema, global)
    /\ \A s \in Senders : Admits(local_schema, local[s])

====
